---- MODULE Spec2Model ----
(***************************************************************************)
(* State-machine model of the eduko research backend: the storage          *)
(* abstraction (LocalStorage / S3Storage), the snapshot and diff writer,   *)
(* the telemetry journal, the session lock and the DV cell runner.         *)
(*                                                                         *)
(* Representation.  A path "a/b/c" is the sequence of its segments; a      *)
(* segment (a file or folder name) is a sequence of tokens, so that the    *)
(* string operations the code applies to names (endswith('/'),             *)
(* rstrip('/'), startswith('run_'), the regex ^run_(\d{4})$, the format    *)
(* run_{idx:04d}) are computed on the name rather than assumed.  A text    *)
(* is the sequence of its characters, so len(text) is Len; a JSON Lines    *)
(* journal is the sequence of its lines, each line standing for the        *)
(* json.dumps of one record; a JSON document is a text of one element      *)
(* holding the object.                                                     *)
(* list_dir results are sets: Path.iterdir() promises no order and every   *)
(* caller sorts or takes a maximum.                                        *)
(***************************************************************************)
EXTENDS Integers, Sequences, FiniteSets, TLC

VARIABLES
    backend,    \* STORAGE_BACKEND: "local" or "s3" (storage.py:11)
    store,      \* the storage singleton's persisted state (storage.py:182)
    resp,       \* outcome of the last request / call
    hist,       \* ghost: the calls made so far, in order
    nops,       \* ghost: number of operations performed (bounds the run)
    loc,        \* twin run: a LocalStorage
    s3o,        \* twin run: an S3Storage fed the same operations
    resL,       \* twin run: what LocalStorage returned last
    resS,       \* twin run: what S3Storage returned last
    procs,      \* overlapping requests: per request its position and locals
    cells,      \* run_dv_cells: the cell list being executed
    cellIdx,    \* run_dv_cells: index of the next cell (loop variable)
    results,    \* run_dv_cells: the results list
    ns,         \* run_dv_cells: the shared namespace (names bound so far)
    execCount,  \* ghost: how often each cell's statements were run
    raised,     \* run_dv_cells: the exception that left the function, if any
    pyplot,     \* matplotlib.pyplot's module state (figures, rcParams)
    loop,       \* the event loop: the request whose handler it is running (0: none)
    llm         \* one chat turn: the producer thread, the queue and the consumer

mainVars == <<backend, store, resp, hist, nops>>
twinVars == <<loc, s3o, resL, resS>>
raceVars == <<procs>>
cellVars == <<cells, cellIdx, results, ns, execCount, raised>>
plotVars == <<pyplot, loop, llm>>
vars == <<mainVars, twinVars, raceVars, cellVars, plotVars>>

(***************************************************************************)
(* Bounds of the model.                                                    *)
(***************************************************************************)
MaxOps == 3        \* operations per behaviour of the sequential specifications
MaxTwinLines == 2  \* lines a twin-run journal may reach before appends stop
MaxCells == 3      \* cells per run_dv_cells call
NProcs == 2        \* overlapping requests
MaxSnaps == 2      \* notebook snapshots per behaviour
MaxChunks == 2     \* events the model's responses deliver in one chat turn
MaxCalls == 2      \* calls of the runner in one process
MaxNbCells == 3    \* cells of a notebook snapshot

(***************************************************************************)
(* Sequence helpers.                                                       *)
(***************************************************************************)
Last(s) == s[Len(s)]

IsPrefix(p, q) == Len(p) <= Len(q) /\ SubSeq(q, 1, Len(p)) = p

Range(s) == {s[i] : i \in 1..Len(s)}

Max(a, b) == IF a >= b THEN a ELSE b

Ancestors(p) == {SubSeq(p, 1, k) : k \in 0..(Len(p) - 1)}

(***************************************************************************)
(* Names.  Lit("runs") is the one-token name "runs".                       *)
(***************************************************************************)
Lit(s) == <<s>>

Digit == {"0", "1", "2", "3", "4", "5", "6", "7", "8", "9"}

DigitOf(d) ==
    CASE d = 0 -> "0" [] d = 1 -> "1" [] d = 2 -> "2" [] d = 3 -> "3"
      [] d = 4 -> "4" [] d = 5 -> "5" [] d = 6 -> "6" [] d = 7 -> "7"
      [] d = 8 -> "8" [] d = 9 -> "9"

ValueOf(c) ==
    CASE c = "0" -> 0 [] c = "1" -> 1 [] c = "2" -> 2 [] c = "3" -> 3
      [] c = "4" -> 4 [] c = "5" -> 5 [] c = "6" -> 6 [] c = "7" -> 7
      [] c = "8" -> 8 [] c = "9" -> 9

\* str(n) for n >= 0: the decimal digits, most significant first
RECURSIVE Decimal(_)
Decimal(n) == IF n < 10 THEN <<DigitOf(n)>>
              ELSE Append(Decimal(n \div 10), DigitOf(n % 10))

\* f"{n:04d}": zero-padded to a width of AT LEAST four digits
RECURSIVE PadLeft(_, _)
PadLeft(ds, w) == IF Len(ds) >= w THEN ds ELSE PadLeft(<<"0">> \o ds, w)

Fmt04(n) == PadLeft(Decimal(n), 4)

\* int(s) of a digit string
RECURSIVE IntOf(_)
IntOf(ds) == IF ds = <<>> THEN 0
             ELSE 10 * IntOf(SubSeq(ds, 1, Len(ds) - 1)) + ValueOf(Last(ds))

\* name.endswith('/') and name.rstrip('/')
EndsWithSlash(name) == name # <<>> /\ Last(name) = "/"

RECURSIVE RStripSlash(_)
RStripSlash(name) == IF EndsWithSlash(name)
                     THEN RStripSlash(SubSeq(name, 1, Len(name) - 1))
                     ELSE name

(***************************************************************************)
(* Storage state: files maps each stored path to its content; dirs is the  *)
(* set of directories of a local file system (always empty for S3, whose   *)
(* key space is flat).                                                     *)
(***************************************************************************)
EmptyStore == [files |-> <<>>, dirs |-> {}]

Keys(st) == DOMAIN st.files

Put(st, p, c) == [q \in Keys(st) \cup {p} |-> IF q = p THEN c ELSE st.files[q]]

\* ---- LocalStorage (storage.py:57-93) ----

\* write_file raises when mkdir(parents) meets a file among the parents
\* or when open(path, 'wb') meets a directory
LocalCanWrite(st, p) ==
    /\ \A a \in Ancestors(p) : a \notin Keys(st)
    /\ p \notin st.dirs

LocalWrite(st, p, c) ==
    [files |-> Put(st, p, c), dirs |-> st.dirs \cup Ancestors(p)]

LocalCanRead(st, p) == p \in Keys(st)

LocalExists(st, p) == p \in Keys(st) \/ p \in st.dirs

\* iterdir() of a regular file raises NotADirectoryError
LocalListDirRaises(st, p) == p \in Keys(st)

LocalListDir(st, p) ==
    IF ~LocalExists(st, p) THEN {}
    ELSE {Last(q) : q \in {r \in Keys(st) : Len(r) = Len(p) + 1 /\ IsPrefix(p, r)}
                          \cup {r \in st.dirs : Len(r) = Len(p) + 1 /\ IsPrefix(p, r)}}

\* ---- S3Storage (storage.py:96-178) ----

S3CanWrite(st, p) == TRUE

S3Write(st, p, c) == [files |-> Put(st, p, c), dirs |-> st.dirs]

S3CanRead(st, p) == p \in Keys(st)

\* head_object answers for an object key only, never for a prefix
S3Exists(st, p) == p \in Keys(st)

S3ListDirRaises(st, p) == FALSE

\* list_objects_v2(Prefix = key.rstrip('/') + '/', Delimiter = '/'): the
\* objects directly under the prefix by their last segment, then one
\* CommonPrefix per deeper first segment, marked with a trailing '/'.
\* For the root path '' the prefix is '/', under which no key lies.
S3ListDir(st, p) ==
    IF p = <<>> THEN {}
    ELSE {Last(q) : q \in {r \in Keys(st) : Len(r) = Len(p) + 1 /\ IsPrefix(p, r)}}
         \cup
         {Append(q[Len(p) + 1], "/") :
             q \in {r \in Keys(st) : Len(r) > Len(p) + 1 /\ IsPrefix(p, r)}}

\* ---- the backend chosen by get_storage (storage.py:185-195) ----

CanWrite(b, st, p) == IF b = "s3" THEN S3CanWrite(st, p) ELSE LocalCanWrite(st, p)

Write(b, st, p, c) == IF b = "s3" THEN S3Write(st, p, c) ELSE LocalWrite(st, p, c)

CanRead(b, st, p) == IF b = "s3" THEN S3CanRead(st, p) ELSE LocalCanRead(st, p)

Read(st, p) == st.files[p]

Exists(b, st, p) == IF b = "s3" THEN S3Exists(st, p) ELSE LocalExists(st, p)

ListDirRaises(b, st, p) ==
    IF b = "s3" THEN S3ListDirRaises(st, p) ELSE LocalListDirRaises(st, p)

ListDir(b, st, p) == IF b = "s3" THEN S3ListDir(st, p) ELSE LocalListDir(st, p)

(***************************************************************************)
(* Twin run: a LocalStorage and an S3Storage receive the same sequence of  *)
(* storage calls on the same logical paths; resL / resS record what each   *)
(* returned (ok = FALSE: the call raised).  Returned location strings are  *)
(* left out.                                                               *)
(***************************************************************************)
SegA == Lit("a")
SegB == Lit("b")
SegC == Lit("c")
SegD == Lit("d")

\* paths written to: a, a/b/c, a/d
TwinPaths == {<<SegA>>, <<SegA, SegB, SegC>>, <<SegA, SegD>>}

\* paths queried: the above, the folder a/b, the root '' and a path never created
TwinQueries == TwinPaths \cup {<<SegA, SegB>>, <<>>, <<Lit("never")>>}

TwinTexts == {<<"x">>}

\* records appended in the twin run (a stored line is the record that
\* json.dumps wrote): one that carries neither server_ts nor event_id
TwinLines == {[event_type |-> <<"click">>]}

Ok(op, p, v) == [op |-> op, path |-> p, ok |-> TRUE, val |-> v]

Raised(op, p) == [op |-> op, path |-> p, ok |-> FALSE, val |-> {}]

TwinInit ==
    /\ loc = EmptyStore
    /\ s3o = EmptyStore
    /\ resL = Ok("init", <<>>, {})
    /\ resS = Ok("init", <<>>, {})

TwinFrame == UNCHANGED <<mainVars, raceVars, cellVars, plotVars>>

\* write_file / write_text (storage.py:66-71, 116-123)
TwinWrite(p, c) ==
    /\ loc' = IF LocalCanWrite(loc, p) THEN LocalWrite(loc, p, c) ELSE loc
    /\ resL' = IF LocalCanWrite(loc, p) THEN Ok("write", p, {}) ELSE Raised("write", p)
    /\ s3o' = IF S3CanWrite(s3o, p) THEN S3Write(s3o, p, c) ELSE s3o
    /\ resS' = IF S3CanWrite(s3o, p) THEN Ok("write", p, {}) ELSE Raised("write", p)
    /\ TwinFrame

\* read_file / read_text (storage.py:81-84, 142-145)
TwinRead(p) ==
    /\ resL' = IF LocalCanRead(loc, p) THEN Ok("read", p, Read(loc, p)) ELSE Raised("read", p)
    /\ resS' = IF S3CanRead(s3o, p) THEN Ok("read", p, Read(s3o, p)) ELSE Raised("read", p)
    /\ UNCHANGED <<loc, s3o>>
    /\ TwinFrame

\* exists (storage.py:86-87, 147-153)
TwinExists(p) ==
    /\ resL' = Ok("exists", p, LocalExists(loc, p))
    /\ resS' = Ok("exists", p, S3Exists(s3o, p))
    /\ UNCHANGED <<loc, s3o>>
    /\ TwinFrame

\* list_dir (storage.py:89-93, 155-178)
TwinListDir(p) ==
    /\ resL' = IF LocalListDirRaises(loc, p) THEN Raised("list_dir", p)
               ELSE Ok("list_dir", p, LocalListDir(loc, p))
    /\ resS' = IF S3ListDirRaises(s3o, p) THEN Raised("list_dir", p)
               ELSE Ok("list_dir", p, S3ListDir(s3o, p))
    /\ UNCHANGED <<loc, s3o>>
    /\ TwinFrame

\* LocalStorage.append_jsonl (storage.py:73-79): open(path, 'a') and write
LocalAppend(st, p, line) ==
    LocalWrite(st, p, (IF p \in Keys(st) THEN st.files[p] ELSE <<>>) \o <<line>>)

\* S3Storage.append_jsonl (storage.py:125-140): read (any failure = empty),
\* concatenate, write the whole object back
S3Append(st, p, line) ==
    S3Write(st, p, (IF S3CanRead(st, p) THEN Read(st, p) ELSE <<>>) \o <<line>>)

TwinLen(st, p) == IF p \in Keys(st) THEN Len(st.files[p]) ELSE 0

TwinAppend(p, line) ==
    /\ TwinLen(loc, p) < MaxTwinLines
    /\ TwinLen(s3o, p) < MaxTwinLines
    /\ loc' = IF LocalCanWrite(loc, p) THEN LocalAppend(loc, p, line) ELSE loc
    /\ resL' = IF LocalCanWrite(loc, p) THEN Ok("append", p, {}) ELSE Raised("append", p)
    /\ s3o' = S3Append(s3o, p, line)
    /\ resS' = Ok("append", p, {})
    /\ TwinFrame

TwinNext ==
    \/ \E p \in TwinPaths, c \in TwinTexts : TwinWrite(p, c)
    \/ \E p \in TwinQueries : TwinRead(p)
    \/ \E p \in TwinQueries : TwinExists(p)
    \/ \E p \in TwinQueries : TwinListDir(p)
    \/ \E p \in TwinPaths, l \in TwinLines : TwinAppend(p, l)

(***************************************************************************)
(* writer.py: paths                                                        *)
(***************************************************************************)
Sids == {"s1"}
Pids == {"p1", "p2"}

\* code bodies: '' and 'a'
Codes == {<<>>, <<"a">>}

session_path(sid) == <<Lit("sessions"), Lit(sid)>>

problem_path(sid, pid) == session_path(sid) \o <<Lit("problems"), Lit(pid)>>

raw_path(sid) == session_path(sid) \o <<Lit("raw")>>

runs_path(sid, pid) == problem_path(sid, pid) \o <<Lit("runs")>>

\* the final submission filed as the first run folder of the problem
submit_path_InRuns(sid, pid) == problem_path(sid, pid) \o <<Lit("runs"), <<"run_", "0", "0", "0", "1">>>>

submit_path(sid, pid) == problem_path(sid, pid) \o <<Lit("submit")>>

diffs_path(sid, pid) == problem_path(sid, pid) \o <<Lit("diffs")>>

events_path(sid) == raw_path(sid) \o <<Lit("events.jsonl")>>

manifest_path(sid) == session_path(sid) \o <<Lit("session.json")>>

chat_path(sid, pid) == problem_path(sid, pid) \o <<Lit("chat.jsonl")>>

\* f"run_{run_idx:04d}"
RunName(idx) == <<"run_">> \o Fmt04(idx)

\* a run folder that leaves the problem id out of its path
run_base_NoProblem(sid, pid, idx) == runs_path(sid, "p1") \o <<RunName(idx)>>

run_base(sid, pid, idx) == runs_path(sid, pid) \o <<RunName(idx)>>

run_code_path(sid, pid, idx) == run_base(sid, pid, idx) \o <<Lit("code.html")>>

run_meta_path(sid, pid, idx) == run_base(sid, pid, idx) \o <<Lit("meta.json")>>

\* f"{idx_from:04d}_to_{idx_to:04d}.patch"
PatchName(i, j) == Fmt04(i) \o <<"_to_">> \o Fmt04(j) \o <<".patch">>

diff_path(sid, pid, i, j) == diffs_path(sid, pid) \o <<PatchName(i, j)>>

\* json.dumps(data) as written by write_json, and json.loads of it
JsonText(obj) == <<obj>>

JsonLoad(text) == text[1]

\* dict.setdefault(k, v)
SetDefault(d, k, v) == IF k \in DOMAIN d THEN d ELSE d @@ (k :> v)

\* dict.update(e)
Update(d, e) == [k \in DOMAIN d \cup DOMAIN e |-> IF k \in DOMAIN e THEN e[k] ELSE d[k]]

(***************************************************************************)
(* writer.py: JSONL journal                                                *)
(***************************************************************************)
\* the text read back by append_jsonl: any failure of read_text counts as ''
\* an append that starts from an empty text whatever the file holds
ExistingText_Dropped(b, st, p) == <<>>

ExistingText(b, st, p) == IF CanRead(b, st, p) THEN Read(st, p) ELSE <<>>

\* the record as stored: server_ts and event_id filled in when absent
Stamped(obj, now, uuid) ==
    SetDefault(SetDefault(obj, "server_ts", now), "event_id", uuid)

\* append_jsonl(file_path, obj): read everything, add one line, write it back
append_jsonl(b, st, p, obj, now, uuid) ==
    Write(b, st, p, ExistingText(b, st, p) \o <<Stamped(obj, now, uuid)>>)

append_event(b, st, sid, record, now, uuid) ==
    append_jsonl(b, st, events_path(sid), record, now, uuid)

(***************************************************************************)
(* writer.py: run snapshots, final submission, diffs                       *)
(***************************************************************************)
\* _RUN_DIR_RE = ^run_(\d{4})$
MatchRunDir(name) ==
    /\ Len(name) = 5
    /\ name[1] = "run_"
    /\ \A i \in 2..5 : name[i] \in Digit

RunDirIndex(name) == IntOf(SubSeq(name, 2, 5))

RECURSIVE SetMax(_)
SetMax(S) == IF S = {} THEN 0
             ELSE LET x == CHOOSE y \in S : TRUE IN Max(x, SetMax(S \ {x}))

\* next_run_index: 1 + the largest index among the listed entries that end
\* with '/' and match the run-folder pattern; 1 when list_dir raises
next_run_index(b, st, sid, pid) ==
    IF ListDirRaises(b, st, runs_path(sid, pid)) THEN 1
    ELSE SetMax({RunDirIndex(RStripSlash(item)) :
                    item \in {it \in ListDir(b, st, runs_path(sid, pid)) :
                                 EndsWithSlash(it) /\ MatchRunDir(RStripSlash(it))}}) + 1

RunMeta(idx, code, now) ==
    [server_ts |-> now, run_index |-> idx, code_len |-> Len(code), kind |-> "run"]

\* the index save_run_snapshot uses: the explicit one, else next_run_index
RunIndexFor(b, st, sid, pid, explicit, index) ==
    IF explicit THEN index ELSE next_run_index(b, st, sid, pid)

\* save_run_snapshot: code.html, then meta.json, under run_<idx>
save_run_snapshot(b, st, sid, pid, code, idx, now) ==
    Write(b, Write(b, st, run_code_path(sid, pid, idx), code),
          run_meta_path(sid, pid, idx), JsonText(RunMeta(idx, code, now)))

final_code_path(sid, pid) == submit_path(sid, pid) \o <<Lit("final_code.html")>>

final_meta_path(sid, pid) == submit_path(sid, pid) \o <<Lit("meta.json")>>

SubmitMeta(code, extra, now) ==
    Update([server_ts |-> now, code_len |-> Len(code), kind |-> "submit"], extra)

\* a submit whose meta.json is the stored one updated with the new fields
save_submit_final_Merged(b, st, sid, pid, code, extra, now) ==
    LET old == IF CanRead(b, st, final_meta_path(sid, pid))
               THEN JsonLoad(Read(st, final_meta_path(sid, pid))) ELSE <<>>
        st1 == Write(b, st, final_code_path(sid, pid), code)
    IN Write(b, st1, final_meta_path(sid, pid),
             JsonText(Update(old, SubmitMeta(code, extra, now))))

\* save_submit_final: final_code.html, then meta.json, both overwritten
save_submit_final(b, st, sid, pid, code, extra, now) ==
    Write(b, Write(b, st, final_code_path(sid, pid), code),
          final_meta_path(sid, pid), JsonText(SubmitMeta(code, extra, now)))

\* text.splitlines(keepends=True), for the line terminator "\n"
RECURSIVE SplitLines(_)
SplitLines(text) ==
    IF text = <<>> THEN <<>>
    ELSE IF \E i \in 1..Len(text) : text[i] = "\n"
         THEN LET k == CHOOSE i \in 1..Len(text) :
                          text[i] = "\n" /\ \A j \in 1..(i - 1) : text[j] # "\n"
              IN <<SubSeq(text, 1, k)>> \o SplitLines(SubSeq(text, k + 1, Len(text)))
         ELSE <<text>>

\* unified_diff(a_text, b_text, a_label, b_label): difflib yields nothing for
\* equal line lists; otherwise the "---"/"+++" header with the two labels
\* followed by the hunks, which are a function of the two line lists (n = 3
\* context lines).  The hunk text is kept as the pair of line lists.
unified_diff(a_text, b_text, a_label, b_label) ==
    IF SplitLines(a_text) = SplitLines(b_text) THEN <<>>
    ELSE <<[fromfile |-> a_label, tofile |-> b_label,
            a |-> SplitLines(a_text), b |-> SplitLines(b_text)]>>

\* save_diff_between_runs: <diffs>/<from>_to_<to>.patch
save_diff_between_runs(b, st, sid, pid, prev_code, next_code, i, j) ==
    Write(b, st, diff_path(sid, pid, i, j),
          unified_diff(prev_code, next_code, RunName(i), RunName(j)))

(***************************************************************************)
(* Idle values of the variables a specification does not use.              *)
(***************************************************************************)
MainIdle ==
    /\ backend = "local"
    /\ store = EmptyStore
    /\ resp = [status |-> "none", val |-> <<>>]
    /\ hist = <<>>
    /\ nops = 0

RaceIdle == procs = <<>>

\* no chat turn is under way
LlmIdle == [pc |-> "idle"]

\* pyplot's module state: the open figures in creation order, each with its
\* number and the artists drawn on it; the index of the current figure (0:
\* none); rcParams, as the style last applied and a key no style file of
\* 'bmh' sets
ProcessStart == [figs |-> <<>>, cur |-> 0, rc |-> [style |-> "default", font |-> "default"]]

\* pyplot as any earlier run leaves it when no code touched rcParams
SettledPyplot == [ProcessStart EXCEPT !.rc.style = "bmh"]

PlotIdle == pyplot = SettledPyplot /\ loop = 0 /\ llm = LlmIdle

CellIdle ==
    /\ cells = <<>>
    /\ cellIdx = 1
    /\ results = <<>>
    /\ ns = {}
    /\ execCount = <<>>
    /\ raised = "none"

(***************************************************************************)
(* Spec: the writer's functions called one after another (no overlap, no   *)
(* storage fault) on either backend.                                       *)
(***************************************************************************)
Backends == {"local", "s3"}

\* explicit indices a caller may pass to save_run_snapshot
ExplicitIdx == {1, 2}

\* extra_meta arguments: none, and the fields submit_dv passes
Extras == {<<>>, [kind |-> "dv", stdout |-> "out"]}

\* telemetry records: without and with a caller-supplied event_id
EventRecs == {[event_type |-> <<"click">>, payload |-> <<>>],
              [event_type |-> <<"click">>, payload |-> <<>>, event_id |-> "mine"]}

Call(op, sid, pid, idx, explicit, arg) ==
    [op |-> op, sid |-> sid, pid |-> pid, idx |-> idx, explicit |-> explicit, arg |-> arg]

Now == nops + 1

\* uuid4(): a value no earlier call obtained
Uuid == [uuid |-> nops + 1]

Init ==
    /\ backend \in Backends
    /\ store = EmptyStore
    /\ resp = [status |-> "none", val |-> <<>>]
    /\ hist = <<>>
    /\ nops = 0
    /\ TwinInit /\ RaceIdle /\ CellIdle /\ PlotIdle

Step == nops < MaxOps /\ nops' = nops + 1 /\ UNCHANGED <<backend, twinVars, raceVars, cellVars, plotVars>>

CallSaveRunSnapshot(sid, pid, code, explicit, index) ==
    LET idx == RunIndexFor(backend, store, sid, pid, explicit, index) IN
    /\ Step
    /\ store' = save_run_snapshot(backend, store, sid, pid, code, idx, Now)
    /\ resp' = [status |-> "ok", val |-> run_base(sid, pid, idx)]
    /\ hist' = Append(hist, Call("run", sid, pid, idx, explicit, code))

CallSaveSubmitFinal(sid, pid, code, extra) ==
    /\ Step
    /\ store' = save_submit_final(backend, store, sid, pid, code, extra, Now)
    /\ resp' = [status |-> "ok", val |-> submit_path(sid, pid)]
    /\ hist' = Append(hist, Call("submit", sid, pid, 0, FALSE, [code |-> code, extra |-> extra]))

CallSaveDiff(sid, pid, prev_code, next_code, i, j) ==
    /\ Step
    /\ store' = save_diff_between_runs(backend, store, sid, pid, prev_code, next_code, i, j)
    /\ resp' = [status |-> "ok", val |-> diff_path(sid, pid, i, j)]
    /\ hist' = Append(hist, Call("diff", sid, pid, j, FALSE, next_code))

CallAppendEvent(sid, record) ==
    /\ Step
    /\ store' = append_event(backend, store, sid, record, Now, Uuid)
    /\ resp' = [status |-> "ok", val |-> <<>>]
    /\ hist' = Append(hist, Call("event", sid, "", 0, FALSE, record))

\* problem ids a caller may pass next. The writer treats every problem id
\* alike, so a behaviour whose first problem is p2 is the mirror image of one
\* whose first problem is p1: only the latter are enumerated.
PidsNow == IF \E k \in DOMAIN hist : hist[k].pid = "p1" THEN Pids ELSE {"p1"}

Next ==
    \/ \E sid \in Sids, pid \in PidsNow, code \in Codes, explicit \in BOOLEAN, index \in ExplicitIdx :
          CallSaveRunSnapshot(sid, pid, code, explicit, index)
    \/ \E sid \in Sids, pid \in PidsNow, code \in Codes, extra \in Extras :
          CallSaveSubmitFinal(sid, pid, code, extra)
    \/ \E sid \in Sids, pid \in PidsNow, prev \in Codes, next \in Codes :
          CallSaveDiff(sid, pid, prev, next, 1, 2)
    \/ \E sid \in Sids, record \in EventRecs : CallAppendEvent(sid, record)

Spec == Init /\ [][Next]_vars

(***************************************************************************)
(* SpecTwin: the two storage backends fed the same calls.                  *)
(***************************************************************************)
TwinSpecInit == MainIdle /\ TwinInit /\ RaceIdle /\ CellIdle /\ PlotIdle

SpecTwin == TwinSpecInit /\ [][TwinNext]_vars

(***************************************************************************)
(* dv_runner.py: user code.  A code string is the sequence of its          *)
(* statements, one token each:                                             *)
(*   "print"  print(...)             "draw"  plt.plot(...)                 *)
(*   "fig"    plt.figure()           "bind"  x = 1                         *)
(*   "use"    x  (NameError if x is unbound)                               *)
(*   "expr"   a bare expression with a value, e.g. 1 + 1                   *)
(*   "raise"  raise ValueError(...)                                        *)
(*   "rsyn"   exec("def f(:")  -- parses, raises SyntaxError when run      *)
(*   "bad"    def f(:          -- the code does not parse                  *)
(*   "eprint" print(..., file=sys.stderr)                                  *)
(*   "drawbad" plt.title("$\\bad$") -- an artist savefig cannot render     *)
(*   "fig2" / "fig3"  plt.figure(2) / plt.figure(3)                        *)
(*   "rc"     plt.rcParams["font.size"] = 30                               *)
(*   "exit"   raise SystemExit  (sys.exit())                               *)
(* The interpreter state: out (stdout text), figs (pyplot's figures in     *)
(* creation order, each the set of marks drawn on it; the last one is the  *)
(* current figure), names (the namespace), exc (the exception raised, or   *)
(* "none"), ran (the positions of the statements run).                     *)
(***************************************************************************)
Parses(code) == \A i \in 1..Len(code) : code[i] # "bad"

\* statements that are ast.Expr nodes
IsExprStmt(tok) ==
    tok \in {"print", "eprint", "draw", "drawbad", "fig", "fig2", "fig3", "use", "expr", "rsyn"}

\* eval() of an expression statement yields None only for print(...)
ValueIsNone(tok) == tok \in {"print", "eprint"}

\* raised classes that "except Exception" does not catch
BaseExceptions == {"SystemExit"}

IsException(e) == e # "none" /\ e \notin BaseExceptions

\* plt.style.use('bmh'): rcParams.update(the style's keys)
StyleUseBmh(rc) == [rc EXCEPT !.style = "bmh"]

FigNums(figs) == {figs[i].num : i \in DOMAIN figs}

\* plt.figure(): the next free number
NextFigNum(figs) == IF figs = <<>> THEN 1 ELSE SetMax(FigNums(figs)) + 1

\* plt.figure(num): make figure num current, creating it when absent
Figure(st, num) ==
    IF num \in FigNums(st.figs)
    THEN [st EXCEPT !.cur = CHOOSE i \in DOMAIN st.figs : st.figs[i].num = num]
    ELSE [st EXCEPT !.figs = Append(@, [num |-> num, marks |-> {}]),
                    !.cur = Len(st.figs) + 1]

\* plt.gcf(): the current figure, a new one when none is open
Gcf(st) == IF st.cur = 0 THEN Figure(st, NextFigNum(st.figs)) ELSE st

\* plt.plot(...): an artist on the current figure, drawn under the rcParams
\* in force; ok = FALSE: an artist that makes savefig raise when rendered
AddArtist(g, mark, ok) ==
    [g EXCEPT !.figs[g.cur].marks = @ \cup {[by |-> mark, rc |-> g.rc, ok |-> ok]}]

DrawOn(st, mark, ok) == AddArtist(Gcf(st), mark, ok)

ExecStmt(tok, pos, mark, st) ==
    LET st1 == [st EXCEPT !.ran = Append(@, pos)] IN
    CASE tok = "print"   -> [st1 EXCEPT !.out = Append(@, "printed")]
      [] tok = "eprint"  -> [st1 EXCEPT !.err = Append(@, "eprinted")]
      [] tok = "draw"    -> DrawOn(st1, mark, TRUE)
      [] tok = "drawbad" -> DrawOn(st1, mark, FALSE)
      [] tok = "fig"     -> Figure(st1, NextFigNum(st1.figs))
      [] tok = "fig2"    -> Figure(st1, 2)
      [] tok = "fig3"    -> Figure(st1, 3)
      [] tok = "rc"      -> [st1 EXCEPT !.rc.font = "user"]
      [] tok = "bind"    -> [st1 EXCEPT !.names = @ \cup {"x"}]
      [] tok = "use"     -> IF "x" \in st.names THEN st1
                            ELSE [st1 EXCEPT !.exc = "NameError"]
      [] tok = "expr"    -> st1
      [] tok = "raise"   -> [st1 EXCEPT !.exc = "ValueError"]
      [] tok = "exit"    -> [st1 EXCEPT !.exc = "SystemExit"]
      [] tok = "rsyn"    -> [st1 EXCEPT !.exc = "SyntaxError"]
      [] OTHER           -> [st1 EXCEPT !.exc = "SyntaxError"]

\* run stmts[from..to] in order, stopping at the first exception
RECURSIVE ExecRange(_, _, _, _, _)
ExecRange(stmts, from, to, mark, st) ==
    IF from > to \/ st.exc # "none" THEN st
    ELSE ExecRange(stmts, from + 1, to, mark, ExecStmt(stmts[from], from, mark, st))

\* exec(code, namespace): compile the whole text first (SyntaxError before
\* any statement runs), then run it
ExecCode(code, mark, st) ==
    IF ~Parses(code) THEN [st EXCEPT !.exc = "SyntaxError"]
    ELSE ExecRange(code, 1, Len(code), mark, st)

\* _figure_has_content (dv_runner.py:13-24)
FigureHasContent(fig) == fig.marks # {}

\* plt.get_fignums(): sorted(Gcf.figs), the figures by ascending number
RECURSIVE FigsByNum(_, _)
FigsByNum(figs, nums) ==
    IF nums = {} THEN <<>>
    ELSE LET n == CHOOSE m \in nums : \A k \in nums : m <= k
             f == figs[CHOOSE i \in DOMAIN figs : figs[i].num = n]
         IN <<f>> \o FigsByNum(figs, nums \ {n})

\* the loop of _capture_plot_png_if_any: the first figure with content
RECURSIVE FirstWithContent(_, _)
FirstWithContent(figs, i) ==
    IF i > Len(figs) THEN <<>>
    ELSE IF FigureHasContent(figs[i]) THEN <<figs[i]>>
    ELSE FirstWithContent(figs, i + 1)

\* _capture_plot_png_if_any (dv_runner.py:27-50): the PNG of the first
\* figure of get_fignums() that has content, else None (<<>>); exc is the
\* exception fig.savefig raised, which leaves the function after the
\* finally clause closed every figure
Rendered(hit) ==
    IF hit = <<>> THEN [plot |-> <<>>, exc |-> "none"]
    ELSE IF \E m \in hit[1].marks : ~m.ok THEN [plot |-> <<>>, exc |-> "ValueError"]
    ELSE [plot |-> hit, exc |-> "none"]

CapturePlot(figs) == Rendered(FirstWithContent(FigsByNum(figs, FigNums(figs)), 1))

\* plt.close('all')
CloseAll(g) == [figs |-> <<>>, cur |-> 0, rc |-> g.rc]

\* pyplot's state as an execution leaves it
PyplotOf(st) == [figs |-> st.figs, cur |-> st.cur, rc |-> st.rc]

(***************************************************************************)
(* run_dv_cells (dv_runner.py:107-187), one loop iteration per step.       *)
(***************************************************************************)
\* a cell set-up that also builds the namespace anew
FreshCell_NewNamespace(names, g) ==
    [out |-> <<>>, err |-> <<>>, figs |-> <<[num |-> 1, marks |-> {}]>>, cur |-> 1,
     rc |-> StyleUseBmh(g.rc), names |-> {}, exc |-> "none",
     ran |-> <<>>, last_none |-> TRUE]

\* plt.close('all'); plt.clf(); plt.style.use('bmh'): clf() on no figure
\* creates an empty figure 1; empty stdout / stderr buffers
FreshCell(names, g) ==
    [out |-> <<>>, err |-> <<>>, figs |-> <<[num |-> 1, marks |-> {}]>>, cur |-> 1,
     rc |-> StyleUseBmh(g.rc), names |-> names, exc |-> "none",
     ran |-> <<>>, last_none |-> TRUE]

\* the try block (dv_runner.py:145-157)
\* last_value = eval(compiled_b, namespace)
LastValue(code, b) ==
    IF b.exc # "none" THEN b ELSE [b EXCEPT !.last_none = ValueIsNone(Last(code))]

\* exec(compiled_a, namespace) has run: then the trailing expression
EvalLast(code, mark, a) ==
    IF a.exc # "none" THEN a
    ELSE LastValue(code, ExecRange(code, Len(code), Len(code), mark, a))

CellTry(code, mark, st) ==
    IF ~Parses(code) THEN [st EXCEPT !.exc = "SyntaxError"]
    ELSE IF code # <<>> /\ IsExprStmt(Last(code))
    THEN EvalLast(code, mark, ExecRange(code, 1, Len(code) - 1, mark, st))
    ELSE ExecCode(code, mark, st)

\* except SyntaxError: exec(code, namespace) once more, uncaught
\* except Exception as e: stderr.write("Code Error: ...")
CellHandlers(code, mark, t) ==
    IF t.exc = "SyntaxError" THEN ExecCode(code, mark, [t EXCEPT !.exc = "none"])
    ELSE IF IsException(t.exc)
    THEN [t EXCEPT !.err = Append(@, "Code Error"), !.exc = "none"]
    ELSE t

\* auto-display of the last value
AutoDisplay(h) ==
    IF h.exc = "none" /\ ~h.last_none THEN [h EXCEPT !.out = Append(@, "repr")] ELSE h

\* the iteration for one cell up to the capture; .exc of the result is the
\* exception that leaves run_dv_cells ("none": the iteration goes on)
RunCell(code, mark, names, g) ==
    AutoDisplay(CellHandlers(code, mark, CellTry(code, mark, FreshCell(names, g))))

\* the exception that leaves the iteration: the cell's, else savefig's
CellRaised(st, cap) == IF st.exc # "none" THEN st.exc ELSE cap.exc

CellResult(st, cap) == [stdout |-> st.out, stderr |-> st.err, plot |-> cap.plot]

\* how often the most-run statement of the iteration was run
RECURSIVE CountIn(_, _)
CountIn(seq, x) == IF seq = <<>> THEN 0
                   ELSE (IF Head(seq) = x THEN 1 ELSE 0) + CountIn(Tail(seq), x)

MaxRuns(ran) == SetMax({CountIn(ran, x) : x \in Range(ran)})

CellSet == {<<"bind", "print">>, <<"use", "draw">>, <<"print", "raise">>,
            <<"bad">>, <<"print", "rsyn">>, <<"fig", "draw", "expr">>}

RECURSIVE SeqsUpTo(_, _)
SeqsUpTo(S, n) ==
    IF n = 0 THEN {<<>>}
    ELSE LET shorter == SeqsUpTo(S, n - 1)
         IN shorter \cup {Append(q, x) : q \in {r \in shorter : Len(r) = n - 1}, x \in S}

CellsInit ==
    /\ MainIdle /\ TwinInit /\ RaceIdle /\ PlotIdle
    /\ cells \in SeqsUpTo(CellSet, MaxCells)
    /\ cellIdx = 1
    /\ results = <<>>
    /\ ns = {}
    /\ execCount = <<>>
    /\ raised = "none"

CellFrame == UNCHANGED <<mainVars, twinVars, raceVars, plotVars>>

\* the loop variables after an iteration that ended with st, exc
CellAdvance(st, res, exc) ==
    /\ ns' = st.names
    /\ execCount' = Append(execCount, MaxRuns(st.ran))
    /\ raised' = exc
    /\ results' = IF exc = "none" THEN Append(results, res) ELSE results
    /\ cellIdx' = IF exc = "none" THEN cellIdx + 1 ELSE cellIdx

CellOutcome(st, cap) == CellAdvance(st, CellResult(st, cap), CellRaised(st, cap))

CellCapture(st) == CellOutcome(st, CapturePlot(st.figs))

\* one iteration of "for code in cells"
CellStep ==
    /\ raised = "none"
    /\ cellIdx <= Len(cells)
    /\ CellCapture(RunCell(cells[cellIdx], cellIdx, ns, pyplot))
    /\ UNCHANGED cells
    /\ CellFrame

CellsNext == CellStep

SpecCells == CellsInit /\ [][CellsNext]_vars

CellsReturned == raised = "none" /\ cellIdx > Len(cells)

(***************************************************************************)
(* dv_runner.py: run_dv_code (dv_runner.py:52-104).                        *)
(***************************************************************************)
\* plt.close('all'); plt.clf(); plt.style.use('bmh'); then
\* exec(code, namespace) with a fresh namespace
RunOnce(code, g) == ExecCode(code, 1, FreshCell({}, g))

\* an outcome whose stderr is the warning alone when no plot was made
RunOutcome_WarningOnly(st, cap) ==
    IF st.exc # "none" \/ cap.exc # "none" \/ cap.plot # <<>>
    THEN [raised |-> "none", stdout |-> st.out, stderr |-> st.err, plot |-> cap.plot,
          plt |-> CloseAll(PyplotOf(st))]
    ELSE [raised |-> "none", stdout |-> st.out,
          stderr |-> <<"Warning: No plot was created">>,
          plot |-> <<>>, plt |-> CloseAll(PyplotOf(st))]

\* what run_dv_code makes of the execution st and the capture cap: the
\* returned tuple, the exception that left the function (raised) and
\* pyplot's state afterwards (plt)
RunOutcome(st, cap) ==
    IF st.exc \in BaseExceptions
    THEN [raised |-> st.exc, stdout |-> <<>>, stderr |-> <<>>, plot |-> <<>>,
          plt |-> PyplotOf(st)]
    ELSE IF st.exc # "none"
    THEN [raised |-> "none", stdout |-> st.out, stderr |-> Append(st.err, "Code Error"),
          plot |-> <<>>, plt |-> PyplotOf(st)]
    ELSE IF cap.exc # "none"
    THEN [raised |-> "none", stdout |-> st.out, stderr |-> Append(st.err, "Runtime Error"),
          plot |-> <<>>, plt |-> CloseAll(PyplotOf(st))]
    ELSE IF cap.plot = <<>>
    THEN [raised |-> "none", stdout |-> st.out,
          stderr |-> Append(st.err, "Warning: No plot was created"),
          plot |-> <<>>, plt |-> CloseAll(PyplotOf(st))]
    ELSE [raised |-> "none", stdout |-> st.out, stderr |-> st.err, plot |-> cap.plot,
          plt |-> CloseAll(PyplotOf(st))]

RunCapture(st) == RunOutcome(st, CapturePlot(st.figs))

run_dv_code(code, g) == RunCapture(RunOnce(code, g))

\* run_dv_cells(cells) on pyplot state g, from cell i on: acc holds the
\* results so far and, per cell run, a trace (the namespace the cell found,
\* the statements it ran); raised is the exception that left the function
RECURSIVE CellsFrom(_, _, _, _, _)
CellsAfter(cs, i, acc, st, res, exc) ==
    IF exc # "none"
    THEN [acc EXCEPT !.raised = exc,
                     !.plt = IF st.exc # "none" THEN PyplotOf(st) ELSE CloseAll(PyplotOf(st))]
    ELSE CellsFrom(cs, i + 1, st.names, CloseAll(PyplotOf(st)),
                   [acc EXCEPT !.results = Append(@, res)])

CellsCaptured(cs, i, acc, st, cap) ==
    CellsAfter(cs, i, acc, st, CellResult(st, cap), CellRaised(st, cap))

CellsRan(cs, i, names, acc, st) ==
    CellsCaptured(cs, i, [acc EXCEPT !.trace = Append(@, [before |-> names, ran |-> st.ran])],
                  st, CapturePlot(st.figs))

CellsFrom(cs, i, names, g, acc) ==
    IF i > Len(cs) THEN [acc EXCEPT !.plt = g]
    ELSE CellsRan(cs, i, names, acc, RunCell(cs[i], i, names, g))

run_dv_cells(cs, g) ==
    CellsFrom(cs, 1, {}, g, [results |-> <<>>, trace |-> <<>>, raised |-> "none", plt |-> g])

(***************************************************************************)
(* SpecRunner: one process, run_dv_code and run_dv_cells called one after  *)
(* another on pyplot's module state.  resp is what the last call returned  *)
(* and hist the calls so far, each with the pyplot state it found.         *)
(***************************************************************************)
RunCodes ==
    {<<"print", "draw">>, <<"print", "eprint">>, <<"print", "draw", "raise", "print">>,
     <<"print", "bad">>, <<"print", "exit">>, <<"rc">>, <<"fig", "draw">>,
     <<"fig3", "draw", "fig2", "draw">>, <<"draw", "drawbad">>}

RunCellSet == {<<"bind", "raise">>, <<"use", "draw">>, <<"draw", "raise">>, <<"print">>}

RunCellLists == SeqsUpTo(RunCellSet, 2)

RunnerInit ==
    /\ backend = "local"
    /\ store = EmptyStore
    /\ resp = [op |-> "none"]
    /\ hist = <<>>
    /\ nops = 0
    /\ pyplot = ProcessStart
    /\ loop = 0
    /\ llm = LlmIdle
    /\ TwinInit /\ RaceIdle /\ CellIdle

RunnerStep ==
    /\ nops < MaxCalls
    /\ nops' = nops + 1
    /\ UNCHANGED <<backend, store, loop, llm, twinVars, raceVars, cellVars>>

\* the call op(arg) returned r
Returned(op, arg, r) ==
    /\ RunnerStep
    /\ pyplot' = r.plt
    /\ resp' = [op |-> op, r |-> r]
    /\ hist' = Append(hist, [op |-> op, arg |-> arg, before |-> pyplot, r |-> r])

CallRunDvCode(code) == Returned("single", code, run_dv_code(code, pyplot))

CallRunDvCells(cs) == Returned("many", cs, run_dv_cells(cs, pyplot))

RunnerNext ==
    \/ \E code \in RunCodes : CallRunDvCode(code)
    \/ \E cs \in RunCellLists : CallRunDvCells(cs)

SpecRunner == RunnerInit /\ [][RunnerNext]_vars

(***************************************************************************)
(* routers/sessions.py: the session manifest and the test-type lock.       *)
(* Optional values: <<>> is None, <<v>> is v.                              *)
(***************************************************************************)
\* str.lower() on the test-type spellings that occur
Lower(t) == CASE t = "FE" -> "fe" [] t = "DV" -> "dv" [] OTHER -> t

\* read_session_manifest: None when the file does not exist (or when
\* read_json fails)
read_session_manifest(b, st, sid) ==
    IF ~Exists(b, st, manifest_path(sid)) THEN <<>>
    ELSE IF ~CanRead(b, st, manifest_path(sid)) THEN <<>>
    ELSE <<JsonLoad(Read(st, manifest_path(sid)))>>

write_session_manifest(b, st, sid, data) ==
    Write(b, st, manifest_path(sid), JsonText(data))

\* "if not existing": None or an empty dict
Falsy(opt) == opt = <<>> \/ DOMAIN opt[1] = {}

NewManifest(sid, intended, now) ==
    [session_id |-> sid, test_type |-> Lower(intended), created_at |-> now,
     finished_at |-> <<>>, name |-> <<>>]

\* existing.get("test_type"), "" when the key is absent (both are falsy)
LockedType(manifest) ==
    IF "test_type" \in DOMAIN manifest THEN manifest["test_type"] ELSE ""

\* the lock with its comparison inverted: a differing type is let through
ensure_session_test_type_Inverted(b, st, sid, intended, now) ==
    LET existing == read_session_manifest(b, st, sid) IN
    IF Falsy(existing)
    THEN [status |-> 200,
          store |-> write_session_manifest(b, st, sid, NewManifest(sid, intended, now))]
    ELSE IF LockedType(existing[1]) # ""
            /\ Lower(LockedType(existing[1])) = Lower(intended)
    THEN [status |-> 409, store |-> st]
    ELSE [status |-> 200, store |-> st]

\* ensure_session_test_type after its first statement, existing being what
\* read_session_manifest returned: [status, store]; 409 = HTTPException raised
EnsureWith(existing, b, st, sid, intended, now) ==
    IF Falsy(existing)
    THEN [status |-> 200,
          store |-> write_session_manifest(b, st, sid, NewManifest(sid, intended, now))]
    ELSE IF LockedType(existing[1]) # ""
            /\ Lower(LockedType(existing[1])) # Lower(intended)
    THEN [status |-> 409, store |-> st]
    ELSE [status |-> 200, store |-> st]

ensure_session_test_type(b, st, sid, intended, now) ==
    EnsureWith(read_session_manifest(b, st, sid), b, st, sid, intended, now)

\* json.loads accepts the text: a stored document is <<obj>>, the empty
\* file '' is not JSON
Parsable(text) == Len(text) = 1

\* read_session_manifest where storage.read_json may raise: a storage fault
\* or a JSONDecodeError, both swallowed by "except Exception: return None"
read_session_manifest_under(fault, b, st, sid) ==
    IF ~Exists(b, st, manifest_path(sid)) THEN <<>>
    ELSE IF fault = "read" \/ ~CanRead(b, st, manifest_path(sid))
            \/ ~Parsable(Read(st, manifest_path(sid))) THEN <<>>
    ELSE <<JsonLoad(Read(st, manifest_path(sid)))>>

ensure_session_test_type_under(fault, b, st, sid, intended, now) ==
    EnsureWith(read_session_manifest_under(fault, b, st, sid), b, st, sid, intended, now)

\* start_session: a manifest under a fresh uuid4 session id
start_session(b, st, sid, name, test, consent, now) ==
    write_session_manifest(b, st, sid,
        [session_id |-> sid, name |-> <<name>>, test_type |-> Lower(test),
         consent |-> consent, created_at |-> now, finished_at |-> <<>>])

\* finish_session: [status, store]
finish_session(b, st, sid, now) ==
    LET manifest == read_session_manifest(b, st, sid) IN
    IF Falsy(manifest) THEN [status |-> 404, store |-> st]
    ELSE [status |-> 200,
          store |-> write_session_manifest(b, st, sid,
                        [manifest[1] EXCEPT !["finished_at"] = <<now>>])]

(***************************************************************************)
(* routers/events.py: log_single.  An event type is the sequence of the    *)
(* words of its name, so that "dv" in name is decided on the name.         *)
(***************************************************************************)
Contains(name, word) == \E i \in 1..Len(name) : Lower(name[i]) = word

\* _guess_type_from_event: <<"dv">>, <<"fe">> or None
guess_type_from_event(name) ==
    IF Contains(name, "dv") THEN <<"dv">>
    ELSE IF Contains(name, "fe") THEN <<"fe">>
    ELSE <<>>

\* event.test_type or _guess_type_from_event(...) or "fe"
IntendedType(event) ==
    IF event.test_type # <<>> /\ event.test_type[1] # "" THEN event.test_type[1]
    ELSE IF guess_type_from_event(event.event_type) # <<>>
    THEN guess_type_from_event(event.event_type)[1]
    ELSE "fe"

log_single(b, st, event, now, uuid) ==
    LET e == ensure_session_test_type(b, st, event.session_id, IntendedType(event), now) IN
    IF e.status # 200 THEN [status |-> e.status, store |-> st, val |-> <<>>]
    ELSE [status |-> 200, val |-> <<>>,
          store |-> append_event(b, e.store, event.session_id,
                        [event_type |-> event.event_type, payload |-> event.payload,
                         client_ts |-> IF event.client_ts = <<>> THEN now
                                       ELSE event.client_ts[1],
                         session_id |-> event.session_id],
                        now, uuid)]

(***************************************************************************)
(* routers/submissions_fe.py                                               *)
(***************************************************************************)
\* str comparison of two names that start with run_ followed by digits
RECURSIVE LexLess(_, _)
LexLess(a, b) ==
    IF a = <<>> THEN b # <<>>
    ELSE IF b = <<>> THEN FALSE
    ELSE IF Head(a) = Head(b) THEN LexLess(Tail(a), Tail(b))
    ELSE IF Head(a) \in Digit /\ Head(b) \in Digit THEN ValueOf(Head(a)) < ValueOf(Head(b))
    ELSE Head(b) \in Digit

\* sorted(...)[-1]
LexLast(S) == CHOOSE x \in S : \A y \in S : y = x \/ LexLess(y, x)

\* _latest_run_code: the code of the last run folder in name order, or None
latest_run_code(b, st, sid, pid) ==
    IF ListDirRaises(b, st, runs_path(sid, pid)) THEN <<>>
    ELSE LET all_runs == {RStripSlash(item) :
                            item \in {it \in ListDir(b, st, runs_path(sid, pid)) :
                                         EndsWithSlash(it) /\ Head(it) = "run_"}}
         IN IF all_runs = {} THEN <<>>
            ELSE LET code_file == runs_path(sid, pid) \o <<LexLast(all_runs), Lit("code.html")>>
                 IN IF Exists(b, st, code_file) /\ CanRead(b, st, code_file)
                    THEN <<Read(st, code_file)>> ELSE <<>>

\* "if prev_code:" -- neither None nor ''
Truthy(opt) == opt # <<>> /\ opt[1] # <<>>

\* save_run_snapshot returns run_base, a str; only a pathlib.Path has .name
ReturnedRunPath(path) == [cls |-> "str", value |-> path]

HasNameAttr(obj) == obj.cls = "Path"

FeEvent(event_type, pid, code, now) ==
    [event_type |-> event_type,
     payload |-> [problem_id |-> pid, bytes |-> Len(code), kind |-> "fe"],
     client_ts |-> now]

\* submit_fe with the two first statements swapped: the final submission is
\* saved before the lock is checked
submit_fe_SaveFirst(b, st, sid, pid, code, now, uuid) ==
    LET saved == save_submit_final(b, st, sid, pid, code, <<>>, now)
        e == ensure_session_test_type(b, saved, sid, "fe", now) IN
    IF e.status # 200 THEN [status |-> e.status, store |-> saved, val |-> <<>>]
    ELSE [status |-> 200, val |-> <<>>,
          store |-> append_event(b, e.store, sid,
                                 FeEvent(<<"submission_saved">>, pid, code, now), now, uuid)]

\* POST /api/submissions/fe
submit_fe(b, st, sid, pid, code, now, uuid) ==
    LET e == ensure_session_test_type(b, st, sid, "fe", now) IN
    IF e.status # 200 THEN [status |-> e.status, store |-> st, val |-> <<>>]
    ELSE [status |-> 200, val |-> <<>>,
          store |-> append_event(b, save_submit_final(b, e.store, sid, pid, code, <<>>, now),
                                 sid, FeEvent(<<"submission_saved">>, pid, code, now), now, uuid)]

\* POST /api/submissions/snapshots/fe
snapshot_fe(b, st, sid, pid, code, now, uuid) ==
    LET e == ensure_session_test_type(b, st, sid, "fe", now) IN
    IF e.status # 200 THEN [status |-> e.status, store |-> st, val |-> <<>>]
    ELSE
    LET prev_code == latest_run_code(b, e.store, sid, pid)
        idx == next_run_index(b, e.store, sid, pid)
        st2 == save_run_snapshot(b, e.store, sid, pid, code, idx, now)
        run_path == ReturnedRunPath(run_base(sid, pid, idx))
        \* try: idx_to = int(run_path.name.split("_")[1]); save_diff...
        \* except Exception: pass
        st3 == IF Truthy(prev_code) /\ HasNameAttr(run_path)
               THEN save_diff_between_runs(b, st2, sid, pid, prev_code[1], code, idx - 1, idx)
               ELSE st2
        st4 == append_event(b, st3, sid, FeEvent(<<"run_snapshot">>, pid, code, now), now, uuid)
    IN \* return {"status": "ok", "saved": run_path.name}
       IF HasNameAttr(run_path)
       THEN [status |-> 200, store |-> st4, val |-> RunName(idx)]
       ELSE [status |-> 500, store |-> st4, val |-> <<>>]

(***************************************************************************)
(* routers/submissions_dv.py: run_dv and submit_dv                         *)
(***************************************************************************)
DvEvent(event_type, pid, code, r, now) ==
    [event_type |-> event_type,
     payload |-> [problem_id |-> pid, code_size |-> Len(code),
                  has_output |-> r.plot # <<>>, has_error |-> r.stderr # <<>>],
     client_ts |-> now]

\* POST /api/submissions/run/dv
run_dv(b, st, sid, pid, code, now, uuid) ==
    LET e == ensure_session_test_type(b, st, sid, "dv", now) IN
    IF e.status # 200 THEN [status |-> e.status, store |-> st, val |-> <<>>]
    ELSE LET r == run_dv_code(code, pyplot)
             st2 == append_event(b, e.store, sid, DvEvent(<<"dv", "run">>, pid, code, r, now),
                                 now, uuid)
         IN IF r.raised # "none" THEN [status |-> 500, store |-> e.store, val |-> <<>>]
            ELSE IF r.stderr # <<>> /\ r.plot = <<>>
            THEN [status |-> 400, store |-> st2, val |-> r.stderr]
            ELSE [status |-> 200, store |-> st2, val |-> r]

\* POST /api/submissions/dv
submit_dv(b, st, sid, pid, code, now, uuid) ==
    LET e == ensure_session_test_type(b, st, sid, "dv", now) IN
    IF e.status # 200 THEN [status |-> e.status, store |-> st, val |-> <<>>]
    ELSE LET r == run_dv_code(code, pyplot)
             st2 == save_submit_final(b, e.store, sid, pid, code,
                        [kind |-> "dv", stdout |-> r.stdout, stderr |-> r.stderr,
                         plot |-> r.plot], now)
         IN IF r.raised # "none" THEN [status |-> 500, store |-> e.store, val |-> <<>>]
            ELSE [status |-> 200, val |-> <<>>,
                  store |-> append_event(b, st2, sid,
                                DvEvent(<<"submission", "saved", "dv">>, pid, code, r, now),
                                now, uuid)]

(***************************************************************************)
(* SpecRoutes: the HTTP routes called one after another (no overlap, no    *)
(* storage fault) on either backend.  resp holds the status of the last    *)
(* request and req what was asked; hist lists the requests that passed the *)
(* lock check.                                                             *)
(***************************************************************************)
RPids == {"p1"}

\* test values a client may send to /start: a spelling of fe, of dv, none
StartTests == {"fe", "DV", ""}

\* telemetry events: no type hint, a dv event name, an explicit hint
Events ==
    {[session_id |-> sid, event_type |-> et, payload |-> <<>>, client_ts |-> <<>>,
      test_type |-> tt] :
        sid \in Sids,
        et \in {<<"click">>, <<"dv", "hover">>},
        tt \in {<<>>, <<"DV">>}}

\* DV code: draws a plot; prints, then raises; prints only
DvCodes == {<<"draw">>, <<"print", "raise">>, <<"print">>}

Req(route, sid, intended, ensure) ==
    [route |-> route, sid |-> sid, intended |-> intended, ensure |-> ensure]

RoutesInit ==
    /\ backend \in Backends
    /\ store = EmptyStore
    /\ resp = [status |-> 0, val |-> <<>>, req |-> Req("none", "", "", FALSE)]
    /\ hist = <<>>
    /\ nops = 0
    /\ TwinInit /\ RaceIdle /\ CellIdle /\ PlotIdle

\* the outcome r = [status, store, val] of a request becomes the new state
Respond(r, req, call) ==
    /\ Step
    /\ store' = r.store
    /\ resp' = [status |-> r.status, val |-> r.val, req |-> req]
    /\ hist' = IF r.status = 409 THEN hist ELSE Append(hist, call)

HasManifest(sid) == read_session_manifest(backend, store, sid) # <<>>

\* uuid4() yields an id no session has
StartSession(sid, test) ==
    /\ ~HasManifest(sid)
    /\ Respond([status |-> 200, val |-> <<>>,
                store |-> start_session(backend, store, sid, "ann", test, TRUE, Now)],
               Req("start", sid, test, FALSE), Call("start", sid, "", 0, FALSE, <<>>))

FinishSession(sid) ==
    LET r == finish_session(backend, store, sid, Now) IN
    Respond([status |-> r.status, store |-> r.store, val |-> <<>>],
            Req("finish", sid, "", FALSE), Call("finish", sid, "", 0, FALSE, <<>>))

LogSingle(event) ==
    Respond(log_single(backend, store, event, Now, Uuid),
            Req("event", event.session_id, IntendedType(event), TRUE),
            Call("event", event.session_id, "", 0, FALSE, event.event_type))

SubmitFe(sid, pid, code) ==
    Respond(submit_fe(backend, store, sid, pid, code, Now, Uuid),
            Req("submit_fe", sid, "fe", TRUE), Call("submit_fe", sid, pid, 0, FALSE, code))

\* the run index the snapshot request works with
SnapshotIdx(sid, pid) ==
    LET e == ensure_session_test_type(backend, store, sid, "fe", Now)
    IN next_run_index(backend, e.store, sid, pid)

SnapshotFe(sid, pid, code) ==
    Respond(snapshot_fe(backend, store, sid, pid, code, Now, Uuid),
            Req("snapshot_fe", sid, "fe", TRUE),
            Call("snapshot_fe", sid, pid, SnapshotIdx(sid, pid), FALSE, code))

RunDv(sid, pid, code) ==
    Respond(run_dv(backend, store, sid, pid, code, Now, Uuid),
            Req("run_dv", sid, "dv", TRUE), Call("run_dv", sid, pid, 0, FALSE, code))

SubmitDv(sid, pid, code) ==
    Respond(submit_dv(backend, store, sid, pid, code, Now, Uuid),
            Req("submit_dv", sid, "dv", TRUE), Call("submit_dv", sid, pid, 0, FALSE, code))

RoutesNext ==
    \/ \E sid \in Sids, test \in StartTests : StartSession(sid, test)
    \/ \E sid \in Sids : FinishSession(sid)
    \/ \E event \in Events : LogSingle(event)
    \/ \E sid \in Sids, pid \in RPids, code \in Codes : SubmitFe(sid, pid, code)
    \/ \E sid \in Sids, pid \in RPids, code \in Codes : SnapshotFe(sid, pid, code)
    \/ \E sid \in Sids, pid \in RPids, code \in DvCodes : RunDv(sid, pid, code)
    \/ \E sid \in Sids, pid \in RPids, code \in DvCodes : SubmitDv(sid, pid, code)

SpecRoutes == RoutesInit /\ [][RoutesNext]_vars

(***************************************************************************)
(* SpecRace: NProcs requests in flight at once, each an append_jsonl or a  *)
(* save_run_snapshot, interleaved at their storage calls (the code takes   *)
(* no lock).  readAt / writeAt are ghost ticks of a request's first read   *)
(* and of its write of the journal or of code.html.                        *)
(***************************************************************************)
ProcIds == 1..NProcs

\* the code request i saves: i characters, so every request's differs
ProcCode(i) == [k \in 1..i |-> "c"]

ProcRec(i) == [event_type |-> <<"click">>, payload |-> [by |-> i]]

JournalPaths == {events_path("s1"), chat_path("s1", "p1")}

ProcStart(kind, path, pid) ==
    [kind |-> kind, pc |-> "start", path |-> path, pid |-> pid, existing |-> <<>>,
     line |-> <<>>, idx |-> 0, readAt |-> 0, writeAt |-> 0]

ProcStarts ==
    {ProcStart("append", path, "") : path \in JournalPaths}
    \cup {ProcStart("snapshot", <<>>, pid) : pid \in Pids}

RaceInit ==
    /\ backend \in Backends
    /\ store = EmptyStore
    /\ resp = [status |-> "none", val |-> <<>>]
    /\ hist = <<>>
    /\ nops = 0
    /\ procs \in [ProcIds -> ProcStarts]
    /\ TwinInit /\ CellIdle /\ PlotIdle

RaceFrame == UNCHANGED <<backend, resp, hist, twinVars, cellVars, plotVars>>

Tick == nops' = nops + 1

\* append_jsonl, writer.py:60-68: stamp the record, read the journal
AppendRead(self) ==
    /\ procs[self].kind = "append" /\ procs[self].pc = "start"
    /\ procs' = [procs EXCEPT ![self].pc = "read",
                              ![self].existing = ExistingText(backend, store, procs[self].path),
                              ![self].line = <<Stamped(ProcRec(self), Now, [uuid |-> self])>>,
                              ![self].readAt = Now]
    /\ Tick /\ UNCHANGED store /\ RaceFrame

\* the write as an atomic append to whatever the journal holds by now
AppendWrite_Atomic(self) ==
    /\ procs[self].kind = "append" /\ procs[self].pc = "read"
    /\ store' = Write(backend, store, procs[self].path,
                      ExistingText(backend, store, procs[self].path) \o procs[self].line)
    /\ procs' = [procs EXCEPT ![self].pc = "done", ![self].writeAt = Now]
    /\ Tick /\ RaceFrame

\* append_jsonl, writer.py:71-72: write existing + line
AppendWrite(self) ==
    /\ procs[self].kind = "append" /\ procs[self].pc = "read"
    /\ store' = Write(backend, store, procs[self].path,
                      procs[self].existing \o procs[self].line)
    /\ procs' = [procs EXCEPT ![self].pc = "done", ![self].writeAt = Now]
    /\ Tick /\ RaceFrame

\* save_run_snapshot, writer.py:142: next_run_index scans the run folders
SnapshotIndex(self) ==
    /\ procs[self].kind = "snapshot" /\ procs[self].pc = "start"
    /\ procs' = [procs EXCEPT ![self].pc = "indexed",
                              ![self].idx = next_run_index(backend, store, "s1", procs[self].pid),
                              ![self].readAt = Now]
    /\ Tick /\ UNCHANGED store /\ RaceFrame

\* save_run_snapshot, writer.py:147-148: write code.html
SnapshotCode(self) ==
    /\ procs[self].kind = "snapshot" /\ procs[self].pc = "indexed"
    /\ store' = Write(backend, store,
                      run_code_path("s1", procs[self].pid, procs[self].idx), ProcCode(self))
    /\ procs' = [procs EXCEPT ![self].pc = "coded", ![self].writeAt = Now]
    /\ Tick /\ RaceFrame

\* save_run_snapshot, writer.py:151-157: write meta.json
SnapshotMeta(self) ==
    /\ procs[self].kind = "snapshot" /\ procs[self].pc = "coded"
    /\ store' = Write(backend, store,
                      run_meta_path("s1", procs[self].pid, procs[self].idx),
                      JsonText(RunMeta(procs[self].idx, ProcCode(self), Now)))
    /\ procs' = [procs EXCEPT ![self].pc = "done"]
    /\ Tick /\ RaceFrame

RaceNext ==
    \/ \E self \in ProcIds : AppendRead(self)
    \/ \E self \in ProcIds : AppendWrite(self)
    \/ \E self \in ProcIds : SnapshotIndex(self)
    \/ \E self \in ProcIds : SnapshotCode(self)
    \/ \E self \in ProcIds : SnapshotMeta(self)

SpecRace == RaceInit /\ [][RaceNext]_vars

(***************************************************************************)
(* SpecLoop: NProcs DV run requests in flight in one server process.  The  *)
(* handlers are coroutines (async def) on one event loop, which runs a     *)
(* handler until it awaits or returns; each step below is one stretch of   *)
(* run_dv / run_dv_code (or one cell of run_dv_notebook / run_dv_cells).   *)
(* procs[i].st holds the request's own buffers and namespace, pyplot is    *)
(* shared by all.                                                          *)
(***************************************************************************)
LoopCodes == {<<"draw">>, <<"fig", "draw", "raise">>, <<"print">>}

LoopCellLists == {<<<<"draw">>, <<"print">>>>}

LoopStart(kind, code) ==
    [kind |-> kind, code |-> code, pc |-> "queued", k |-> 1,
     st |-> FreshCell({}, ProcessStart), ret |-> <<>>]

LoopStarts ==
    {LoopStart("single", code) : code \in LoopCodes}
    \cup {LoopStart("many", cs) : cs \in LoopCellLists}

LoopInit ==
    /\ MainIdle /\ TwinInit /\ CellIdle
    /\ pyplot = ProcessStart
    /\ loop = 0
    /\ llm = LlmIdle
    /\ procs \in [ProcIds -> LoopStarts]

LoopFrame == UNCHANGED <<mainVars, twinVars, cellVars, llm>>

\* a handler that gives up the event loop after every stretch
Awaits_Each(pc) == TRUE

\* the awaits in the handler after the stretch that ends at pc: run_dv,
\* run_dv_notebook, run_dv_code and run_dv_cells contain none
Awaits(pc) == FALSE

\* the event loop runs request self's handler, which then stands at pc
Runs(self, pc) ==
    /\ loop \in {0, self}
    /\ loop' = IF pc = "done" \/ Awaits(pc) THEN 0 ELSE self

\* the request's execution state on the shared pyplot state
OnPyplot(st, g) == [st EXCEPT !.figs = g.figs, !.cur = g.cur, !.rc = g.rc]

\* run_dv_code, dv_runner.py:79-83: buffers, plt.close('all'), clf, style
LoopReset(self) ==
    /\ procs[self].kind = "single" /\ procs[self].pc = "queued"
    /\ Runs(self, "exec")
    /\ pyplot' = PyplotOf(FreshCell({}, pyplot))
    /\ procs' = [procs EXCEPT ![self].pc = "exec", ![self].st = FreshCell({}, pyplot)]
    /\ LoopFrame

\* the position after the statement that left the request in state st
AfterStmt(code, k, st) == IF st.exc # "none" \/ k >= Len(code) THEN "capture" ELSE "exec"

Executes(self, st, pc) ==
    /\ Runs(self, pc)
    /\ pyplot' = PyplotOf(st)
    /\ procs' = [procs EXCEPT ![self].pc = pc, ![self].k = @ + 1, ![self].st = st]

\* run_dv_code, dv_runner.py:87: exec(code, namespace), one statement
LoopExec(self) ==
    /\ procs[self].kind = "single" /\ procs[self].pc = "exec"
    /\ Executes(self,
                IF ~Parses(procs[self].code) \/ procs[self].code = <<>>
                THEN ExecCode(procs[self].code, self, OnPyplot(procs[self].st, pyplot))
                ELSE ExecStmt(procs[self].code[procs[self].k], procs[self].k, self,
                              OnPyplot(procs[self].st, pyplot)),
                IF ~Parses(procs[self].code) THEN "capture"
                ELSE AfterStmt(procs[self].code, procs[self].k,
                               ExecStmt(procs[self].code[procs[self].k], procs[self].k, self,
                                        OnPyplot(procs[self].st, pyplot))))
    /\ LoopFrame

Returns(self, r) ==
    /\ pyplot' = r.plt
    /\ procs' = [procs EXCEPT ![self].pc = "done", ![self].ret = <<r>>]

\* run_dv_code, dv_runner.py:88-104: handler or capture, and the return
LoopReturn(self) ==
    /\ procs[self].kind = "single" /\ procs[self].pc = "capture"
    /\ Runs(self, "done")
    /\ Returns(self, RunCapture(OnPyplot(procs[self].st, pyplot)))
    /\ LoopFrame

\* run_dv_notebook: run_dv_cells(code_cells), dv_runner.py:107-187
LoopCells(self) ==
    /\ procs[self].kind = "many" /\ procs[self].pc = "queued"
    /\ Runs(self, "done")
    /\ Returns(self, run_dv_cells(procs[self].code, pyplot))
    /\ LoopFrame

LoopNext ==
    \/ \E self \in ProcIds : LoopReset(self)
    \/ \E self \in ProcIds : LoopExec(self)
    \/ \E self \in ProcIds : LoopReturn(self)
    \/ \E self \in ProcIds : LoopCells(self)

SpecLoop == LoopInit /\ [][LoopNext]_vars

(***************************************************************************)
(* SpecJournal: append_chat_raw and append_event called one after another  *)
(* on either backend, where storage.read_text may fail for a reason other  *)
(* than absence (a storage fault: permission, connectivity).               *)
(***************************************************************************)
raw_chat_path(sid) == raw_path(sid) \o <<Lit("chat.jsonl")>>

\* storage.read_text inside append_jsonl: the bare "except:" turns every
\* failure, a storage fault included, into existing = ""
ExistingTextUnder(fault, b, st, p) ==
    IF fault = "read" THEN <<>> ELSE ExistingText(b, st, p)

\* append_jsonl where the read of the journal may hit a storage fault
append_jsonl_under(fault, b, st, p, obj, now, uuid) ==
    Write(b, st, p, ExistingTextUnder(fault, b, st, p) \o <<Stamped(obj, now, uuid)>>)

\* "if problem_id:" on record.get("problem_id"): a missing key and None are
\* <<>>, a value v is <<v>>; the empty string is falsy
ProblemIdOf(record) ==
    IF "problem_id" \in DOMAIN record THEN record["problem_id"] ELSE <<>>

ChatTarget(sid, record) ==
    IF ProblemIdOf(record) # <<>> /\ ProblemIdOf(record)[1] # ""
    THEN chat_path(sid, ProblemIdOf(record)[1])
    ELSE raw_chat_path(sid)

append_chat_raw(fault, b, st, sid, record, now, uuid) ==
    append_jsonl_under(fault, b, st, ChatTarget(sid, record), record, now, uuid)

\* chat records: no problem_id key, problem_id None, a problem id, the empty
\* string as problem id
ChatRecs ==
    {[prompt |-> "hi"],
     [prompt |-> "hi", problem_id |-> <<>>],
     [prompt |-> "hi", problem_id |-> <<"p1">>],
     [prompt |-> "hi", problem_id |-> <<"">>]}

\* outcomes of the read inside one append: it works, or the storage faults
Faults == {"none", "read"}

JournalCall(op, sid, fault, arg) == [op |-> op, sid |-> sid, fault |-> fault, arg |-> arg]

CallAppendChatRaw(sid, record, fault) ==
    /\ Step
    /\ store' = append_chat_raw(fault, backend, store, sid, record, Now, Uuid)
    /\ resp' = [status |-> "ok", val |-> <<>>]
    /\ hist' = Append(hist, JournalCall("chat", sid, fault, record))

CallAppendEventUnder(sid, record, fault) ==
    /\ Step
    /\ store' = append_jsonl_under(fault, backend, store, events_path(sid), record, Now, Uuid)
    /\ resp' = [status |-> "ok", val |-> <<>>]
    /\ hist' = Append(hist, JournalCall("event", sid, fault, record))

JournalNext ==
    \/ \E sid \in Sids, record \in ChatRecs, fault \in Faults :
          CallAppendChatRaw(sid, record, fault)
    \/ \E sid \in Sids, record \in EventRecs, fault \in Faults :
          CallAppendEventUnder(sid, record, fault)

SpecJournal == Init /\ [][JournalNext]_vars

(***************************************************************************)
(* routers/submissions_dv.py: _compute_nb_diff.  A cell is a dict with a   *)
(* "source" string; positions are counted from 0 as range() does.          *)
(***************************************************************************)
\* dict.get(key, default)
Get(d, key, default) == IF key \in DOMAIN d THEN d[key] ELSE default

\* the loop over range(upto): the positions, in order, whose sources differ;
\* a position one of the lists lacks compares the default ""
RECURSIVE ModifiedFrom(_, _, _, _)
ModifiedFrom(prev_cells, current_cells, i, upto) ==
    IF i >= upto THEN <<>>
    ELSE LET prev_src == IF i < Len(prev_cells) THEN Get(prev_cells[i + 1], "source", "") ELSE ""
             curr_src == IF i < Len(current_cells)
                         THEN Get(current_cells[i + 1], "source", "") ELSE ""
         IN (IF prev_src # curr_src THEN <<i>> ELSE <<>>)
            \o ModifiedFrom(prev_cells, current_cells, i + 1, upto)

NbDiff(added, removed, modified) ==
    [added_cells |-> added, removed_cells |-> removed, modified_cells |-> modified,
     total_changes |-> added + removed + Len(modified)]

\* the diff whose loop runs over the longer list: cells beyond the shorter
\* list are reported as modifications too
compute_nb_diff_Padded(prev_snapshot, current_cells) ==
    LET prev_cells == Get(prev_snapshot, "cells", <<>>) IN
    NbDiff(Max(0, Len(current_cells) - Len(prev_cells)),
           Max(0, Len(prev_cells) - Len(current_cells)),
           ModifiedFrom(prev_cells, current_cells, 0,
                        Max(Len(prev_cells), Len(current_cells))))

compute_nb_diff(prev_snapshot, current_cells) ==
    LET prev_cells == Get(prev_snapshot, "cells", <<>>) IN
    NbDiff(Max(0, Len(current_cells) - Len(prev_cells)),
           Max(0, Len(prev_cells) - Len(current_cells)),
           ModifiedFrom(prev_cells, current_cells, 0,
                        IF Len(prev_cells) <= Len(current_cells)
                        THEN Len(prev_cells) ELSE Len(current_cells)))

(***************************************************************************)
(* SpecNbDiff: _compute_nb_diff applied once to a previous snapshot and a  *)
(* list of current cells.  hist holds the arguments, resp the result.      *)
(***************************************************************************)
NbSources == {"a", "b", "x", "c"}

NbCellLists == SeqsUpTo({[source |-> src] : src \in NbSources}, MaxNbCells)

\* stored snapshots: with their cells, or (a document of another shape)
\* without a "cells" key
NbSnapshots == {[run_index |-> 1, cells |-> cs] : cs \in NbCellLists} \cup {[run_index |-> 1]}

NbDiffInit ==
    /\ backend = "local"
    /\ store = EmptyStore
    /\ resp = [status |-> "none", val |-> <<>>]
    /\ hist \in {<<[prev |-> snap, cells |-> cs]>> : snap \in NbSnapshots, cs \in NbCellLists}
    /\ nops = 0
    /\ TwinInit /\ RaceIdle /\ CellIdle /\ PlotIdle

CallComputeNbDiff ==
    /\ nops = 0
    /\ nops' = 1
    /\ resp' = [status |-> "ok", val |-> compute_nb_diff(hist[1].prev, hist[1].cells)]
    /\ UNCHANGED <<backend, store, hist, twinVars, raceVars, cellVars, plotVars>>

NbDiffNext == CallComputeNbDiff

SpecNbDiff == NbDiffInit /\ [][NbDiffNext]_vars

(***************************************************************************)
(* routers/submissions_dv.py: notebook snapshots.  The route reaches the   *)
(* nb_runs folders through pathlib on the local file system (fs), the      *)
(* manifest and the event journal through the storage (st).                *)
(***************************************************************************)
\* problem_dir(session_id, problem_id): the problem's folder as a Path
problem_dir(sid, pid) == problem_path(sid, pid)

\* ensure_dir(path): path.mkdir(parents=True, exist_ok=True)
ensure_dir(fs, p) == [fs EXCEPT !.dirs = @ \cup {p} \cup Ancestors(p)]

nb_runs_root(sid, pid) == problem_dir(sid, pid) \o <<Lit("nb_runs")>>

\* f"nb_run_{run_idx:04d}"
NbRunName(idx) == <<"nb_run_">> \o Fmt04(idx)

nb_run_folder(sid, pid, idx) == nb_runs_root(sid, pid) \o <<NbRunName(idx)>>

nb_notebook_path(sid, pid, idx) == nb_run_folder(sid, pid, idx) \o <<Lit("notebook.json")>>

nb_diff_path(sid, pid, idx) == nb_run_folder(sid, pid, idx) \o <<Lit("diff.json")>>

nb_changes_path(sid, pid, idx) == nb_run_folder(sid, pid, idx) \o <<Lit("changes.txt")>>

\* [p for p in runs_root.iterdir() if p.is_dir() and p.name.startswith("nb_run_")]
NbRunDirs(fs, root) ==
    {name \in LocalListDir(fs, root) : root \o <<name>> \in fs.dirs /\ Head(name) = "nb_run_"}

\* int(p.name.split("_")[-1]) raises ValueError unless digits follow the
\* last underscore
NbHasIndex(name) == Len(name) > 1 /\ \A i \in 2..Len(name) : name[i] \in Digit

NbIndexOf(name) == IntOf(SubSeq(name, 2, Len(name)))

\* the least power of two (times h) that no element of I reaches
RECURSIVE Above(_, _)
Above(I, h) == IF \E y \in I : y >= h THEN Above(I, 2 * h) ELSE h

\* max_idx = 0; for ...: max_idx = max(max_idx, idx) -- the largest element
\* of I \cup {lo}, all elements being below hi (found by halving lo..hi)
RECURSIVE MaxIn(_, _, _)
MaxIn(I, lo, hi) ==
    IF hi - lo <= 1 THEN lo
    ELSE IF \E y \in I : y >= (lo + hi) \div 2 THEN MaxIn(I, (lo + hi) \div 2, hi)
    ELSE MaxIn(I, lo, (lo + hi) \div 2)

\* _next_nb_run_index
NbNextAfter(I) == MaxIn(I, 0, Above(I, 1)) + 1

next_nb_run_index(fs, sid, pid) ==
    IF ~LocalExists(fs, nb_runs_root(sid, pid)) THEN 1
    ELSE NbNextAfter({NbIndexOf(name) :
                        name \in {nm \in NbRunDirs(fs, nb_runs_root(sid, pid)) :
                                     NbHasIndex(nm)}})

\* the character that sorts last among those at position k of the names
LastChar(S, k) == CHOOSE c \in {x[k] : x \in S} :
                     \A x \in S : x[k] = c \/ LexLess(<<x[k]>>, <<c>>)

\* sorted(names)[-1], found position by position: names that end at
\* position k sort before the names they are a prefix of
RECURSIVE SortedLast(_, _)
SortedLastWith(S, k, c) == SortedLast({x \in S : x[k] = c}, k + 1)

SortedLastAmong(S, k) == SortedLastWith(S, k, LastChar(S, k))

SortedLast(S, k) ==
    IF \A x \in S : Len(x) < k THEN CHOOSE x \in S : TRUE
    ELSE SortedLastAmong({x \in S : Len(x) >= k}, k)

\* json.load of the latest folder's notebook.json, None when it is missing
\* or does not parse
LatestNotebook(fs, notebook_path) ==
    IF notebook_path \in Keys(fs) /\ Parsable(fs.files[notebook_path])
    THEN <<JsonLoad(fs.files[notebook_path])>> ELSE <<>>

\* _get_latest_nb_snapshot once the run folders are listed
LatestAmong(fs, root, nb_dirs) ==
    IF nb_dirs = {} THEN <<>>
    ELSE LatestNotebook(fs, root \o <<SortedLast(nb_dirs, 1), Lit("notebook.json")>>)

\* _get_latest_nb_snapshot: Some(snapshot) or None
get_latest_nb_snapshot(fs, sid, pid) ==
    IF ~LocalExists(fs, nb_runs_root(sid, pid)) THEN <<>>
    ELSE LatestAmong(fs, nb_runs_root(sid, pid), NbRunDirs(fs, nb_runs_root(sid, pid)))

\* the trigger line of changes.txt
TriggerLine(trigger, cell_index) ==
    IF trigger = "run_all" THEN <<"Run All">>
    ELSE IF trigger = "run_cell" /\ cell_index # <<>> THEN <<"Run Cell", cell_index[1] + 1>>
    ELSE <<trigger>>

\* the marker changes.txt puts next to cell i (counted from 0)
CellMarker(prev_snapshot, diff_stats, i) ==
    IF \E k \in DOMAIN diff_stats.modified_cells : diff_stats.modified_cells[k] = i
    THEN "MODIFIED"
    ELSE IF i >= Len(Get(prev_snapshot, "cells", <<>>)) THEN "NEW" ELSE ""

\* changes.txt: header, trigger, cell count, the changes and every cell
ChangesText(run_idx, trigger, cell_index, prev_snapshot, diff_stats, current_cells, now) ==
    <<[run |-> Fmt04(run_idx), timestamp |-> now,
       trigger |-> TriggerLine(trigger, cell_index),
       total_cells |-> Len(current_cells),
       changes |-> IF diff_stats.total_changes = 0 THEN <<>> ELSE <<diff_stats>>,
       cells |-> [i \in 1..Len(current_cells) |->
                    [marker |-> CellMarker(prev_snapshot, diff_stats, i - 1),
                     source |-> current_cells[i].source]]]>>

\* diff.json
NbDiffDoc(prev_snapshot, run_idx, diff_stats, now) ==
    [from_run |-> Get(prev_snapshot, "run_index", <<>>), to_run |-> run_idx,
     timestamp |-> now] @@ diff_stats

\* notebook.json
NbSnapshotDoc(run_idx, trigger, cell_index, current_cells, now) ==
    [timestamp |-> now, run_index |-> run_idx, trigger |-> trigger,
     cell_index |-> cell_index, cells |-> current_cells]

\* path.open("w") and write, in a folder that exists
FsWrite(fs, p, text) == [fs EXCEPT !.files = (p :> text) @@ @]

\* the files of one snapshot: diff.json and changes.txt only "if
\* prev_snapshot:" (a snapshot that is not None and not {}), then
\* notebook.json
NbFiles(fs, sid, pid, prev, run_idx, trigger, cell_index, current_cells, now) ==
    FsWrite(
        IF Falsy(prev) THEN ensure_dir(fs, nb_run_folder(sid, pid, run_idx))
        ELSE FsWrite(FsWrite(ensure_dir(fs, nb_run_folder(sid, pid, run_idx)),
                             nb_diff_path(sid, pid, run_idx),
                             JsonText(NbDiffDoc(prev[1], run_idx,
                                                compute_nb_diff(prev[1], current_cells), now))),
                     nb_changes_path(sid, pid, run_idx),
                     ChangesText(run_idx, trigger, cell_index, prev[1],
                                 compute_nb_diff(prev[1], current_cells), current_cells, now)),
        nb_notebook_path(sid, pid, run_idx),
        JsonText(NbSnapshotDoc(run_idx, trigger, cell_index, current_cells, now)))

\* the dvnb_snapshot event: "if diff_stats:" adds the diff
NbEventPayload(pid, run_idx, trigger, cell_index, current_cells) ==
    [problem_id |-> pid, run_index |-> run_idx, trigger |-> trigger,
     cell_index |-> cell_index, total_cells |-> Len(current_cells)]

NbEvent(pid, prev, run_idx, trigger, cell_index, current_cells, now) ==
    [event_type |-> <<"dvnb", "snapshot">>,
     payload |-> IF Falsy(prev)
                 THEN NbEventPayload(pid, run_idx, trigger, cell_index, current_cells)
                 ELSE NbEventPayload(pid, run_idx, trigger, cell_index, current_cells)
                      @@ [diff |-> compute_nb_diff(prev[1], current_cells)],
     client_ts |-> now]

\* snapshot_dvnb once the lock check passed (st is the storage it left),
\* with the previous snapshot and the run index it found
NbSnapshotWith(b, st, fs, sid, pid, prev, run_idx, current_cells, trigger, cell_index, now, uuid) ==
    [status |-> 200,
     store |-> append_event(b, st, sid,
                   NbEvent(pid, prev, run_idx, trigger, cell_index, current_cells, now),
                   now, uuid),
     fs |-> NbFiles(fs, sid, pid, prev, run_idx, trigger, cell_index, current_cells, now),
     val |-> run_idx]

\* POST /api/submissions/snapshots/dvnb: [status, store, fs, val]
snapshot_dvnb(b, st, fs, sid, pid, current_cells, trigger, cell_index, now, uuid) ==
    IF ensure_session_test_type(b, st, sid, "dv", now).status # 200
    THEN [status |-> 409, store |-> st, fs |-> fs, val |-> <<>>]
    ELSE NbSnapshotWith(b, ensure_session_test_type(b, st, sid, "dv", now).store, fs, sid, pid,
                        get_latest_nb_snapshot(fs, sid, pid),
                        next_nb_run_index(fs, sid, pid),
                        current_cells, trigger, cell_index, now, uuid)

(***************************************************************************)
(* SpecNotebook: POST /snapshots/dvnb called one time after another (the   *)
(* route is a coroutine without an await, so requests do not interleave).  *)
(* A behaviour starts on a new session or on one whose problem p1 already  *)
(* has NbTaken snapshots; loc is the local file system, store the storage. *)
(***************************************************************************)
\* the largest index that f"{run_idx:04d}" writes with four digits
NbTaken == 9999

\* cell lists sent to the route
SnapCells == {<<>>, <<[source |-> "a"]>>, <<[source |-> "a"], [source |-> "b"]>>}

\* the files of snapshot k in a history of one cell list sent with trigger
\* run_all at time 0; diff_stats is the diff of that list against itself
NbHistoryDoc(p, k, current_cells, diff_stats) ==
    IF Last(p) = Lit("notebook.json")
    THEN JsonText(NbSnapshotDoc(k, "run_all", <<>>, current_cells, 0))
    ELSE IF Last(p) = Lit("diff.json")
    THEN JsonText(NbDiffDoc([run_index |-> k - 1, cells |-> current_cells], k, diff_stats, 0))
    ELSE ChangesText(k, "run_all", <<>>, [cells |-> current_cells], diff_stats,
                     current_cells, 0)

\* the file system after snapshots 1..n of one problem
NbHistoryFiles(sid, pid, n, current_cells, diff_stats) ==
    [p \in {nb_run_folder(sid, pid, kf[1]) \o <<Lit(kf[2])>> :
               kf \in {x \in (1..n) \X {"notebook.json", "diff.json", "changes.txt"} :
                          x[1] > 1 \/ x[2] = "notebook.json"}} |->
        NbHistoryDoc(p, NbIndexOf(p[6]), current_cells, diff_stats)]

NbHistoryFs(sid, pid, n, current_cells) ==
    IF n = 0 THEN EmptyStore
    ELSE [files |-> NbHistoryFiles(sid, pid, n, current_cells,
                                   compute_nb_diff([cells |-> current_cells], current_cells)),
          dirs |-> {nb_run_folder(sid, pid, k) : k \in 1..n}
                   \cup Ancestors(nb_run_folder(sid, pid, 1))]

\* the events of the same snapshots: later is the event of a snapshot that
\* had a previous one
NbHistoryEvents(pid, n, current_cells, first, later) ==
    [k \in 1..n |->
        Stamped(IF k = 1 THEN first ELSE [later EXCEPT !.payload.run_index = k],
                0, [uuid |-> 0 - k])]

\* the storage after the same snapshots: the manifest and one event each
NbHistoryStore(b, sid, pid, n, current_cells) ==
    IF n = 0 THEN EmptyStore
    ELSE Write(b, ensure_session_test_type(b, EmptyStore, sid, "dv", 0).store,
               events_path(sid),
               NbHistoryEvents(pid, n, current_cells,
                               NbEvent(pid, <<>>, 1, "run_all", <<>>, current_cells, 0),
                               NbEvent(pid, <<[cells |-> current_cells]>>, 2, "run_all",
                                       <<>>, current_cells, 0)))

\* a deployment on either backend that took no, one or two snapshots of
\* problem p1, or a local one that took NbTaken
NbStarts == {<<b, n>> : b \in Backends, n \in {0, 1, 2}} \cup {<<"local", NbTaken>>}

NotebookInit ==
    /\ \E start \in NbStarts :
          /\ backend = start[1]
          /\ loc = NbHistoryFs("s1", "p1", start[2], <<[source |-> "a"]>>)
          /\ store = NbHistoryStore(start[1], "s1", "p1", start[2], <<[source |-> "a"]>>)
    /\ resp = [status |-> 0, val |-> <<>>]
    /\ hist = <<>>
    /\ nops = 0
    /\ s3o = EmptyStore
    /\ resL = Ok("init", <<>>, {})
    /\ resS = Ok("init", <<>>, {})
    /\ RaceIdle /\ CellIdle /\ PlotIdle

NbSnapshotTaken(r, call) ==
    /\ nops < MaxSnaps
    /\ nops' = nops + 1
    /\ store' = r.store
    /\ loc' = r.fs
    /\ resp' = [status |-> r.status, val |-> r.val]
    /\ hist' = Append(hist, call)
    /\ UNCHANGED <<backend, s3o, resL, resS, raceVars, cellVars, plotVars>>

SnapshotDvnb(sid, pid, current_cells) ==
    NbSnapshotTaken(snapshot_dvnb(backend, store, loc, sid, pid, current_cells,
                                  "run_all", <<>>, Now, Uuid),
                    Call("snapshot_dvnb", sid, pid, 0, FALSE, current_cells))

NotebookNext == \E sid \in Sids, pid \in Pids, current_cells \in SnapCells :
                    SnapshotDvnb(sid, pid, current_cells)

SpecNotebook == NotebookInit /\ [][NotebookNext]_vars

(***************************************************************************)
(* services/llm.py: GeminiProvider.stream, and the chat turn of            *)
(* routers/chat.py that consumes it.  llm holds                            *)
(*   pc           where the producer thread stands in _sync_iter/producer  *)
(*   retry_count  _sync_iter's counter                                     *)
(*   n            ghost: events the responses have delivered so far        *)
(*   err          the exception that left _sync_iter (None: <<>>)          *)
(*   q            the asyncio.Queue                                        *)
(*   cpc          where the consumer (stream's loop in chat_ws) stands     *)
(*   cerr         the exception stream raised to chat_ws                   *)
(*   full_response  chat_ws's collected tokens                             *)
(*   stored       the response chat_ws stored (None: <<>>)                 *)
(*   calls, outcomes, emitted   ghosts: generate_content calls, how each   *)
(*                ended, what _sync_iter yielded (with the call it is of,  *)
(*                0 for a retry notice)                                    *)
(* A text is a sequence of tokens, so that startswith can be told.  The    *)
(* delay of a retry (parsed from the error or 20 s) is left out: it sets   *)
(* only the length of the sleep and a number in the notice.                *)
(***************************************************************************)
max_retries == 3

DoneMark == <<"__DONE__">>

ErrorMark == "__ERROR__:"

RateLimitError == <<"Rate limit exceeded after 3 retries">>

\* f"Rate limit reached. Retrying ... (attempt {retry_count}/{max_retries})"
RetryNotice(retry_count) == <<"Rate limit reached", retry_count>>

\* "if retry_count > max_retries: raise Exception(...)"
GivesUp_Never(retry_count) == FALSE

GivesUp(retry_count) == retry_count > max_retries

\* the state in which the chat turn starts the producer thread
StreamStart ==
    [pc |-> "call", retry_count |-> 0, n |-> 0, err |-> <<>>, q |-> <<>>,
     cpc |-> "wait", cerr |-> <<>>, full_response |-> <<>>, stored |-> <<>>,
     calls |-> 0, outcomes |-> <<>>, emitted |-> <<>>]

\* "yield text" in _sync_iter and "q.put(tok)" in producer
Yield(l, text, call) ==
    [l EXCEPT !.q = Append(@, text), !.emitted = Append(@, [text |-> text, call |-> call])]

\* "except ResourceExhausted": count, then give up or announce the retry
OnResourceExhausted(l) ==
    IF GivesUp(l.retry_count + 1)
    THEN [l EXCEPT !.retry_count = @ + 1, !.pc = "except", !.err = <<RateLimitError>>]
    ELSE [Yield(l, RetryNotice(l.retry_count + 1), 0) EXCEPT
             !.retry_count = @ + 1, !.pc = "sleep"]

\* how a call of generate_content, or the iteration of its response, ends
Ended(l, outcome) ==
    IF outcome = "ResourceExhausted"
    THEN OnResourceExhausted([l EXCEPT !.outcomes = Append(@, outcome)])
    ELSE IF outcome = "Error"
    THEN [l EXCEPT !.outcomes = Append(@, outcome), !.pc = "except", !.err = <<<<"boom">>>>]
    ELSE [l EXCEPT !.outcomes = Append(@, outcome), !.pc = "finally"]

\* "while retry_count <= max_retries:" and generate_content(..., stream=True)
generate_content(l, outcome) ==
    IF ~(l.retry_count <= max_retries) THEN [l EXCEPT !.pc = "finally"]
    ELSE IF outcome = "stream" THEN [l EXCEPT !.calls = @ + 1, !.pc = "iter"]
    ELSE Ended([l EXCEPT !.calls = @ + 1], outcome)

\* "for ev in resp": an event with text is yielded, one whose text is empty
\* or raises ValueError is skipped
next_event(l, ev) ==
    IF ev.kind = "chunk" THEN [Yield(l, ev.text, l.calls) EXCEPT !.n = @ + 1]
    ELSE IF ev.kind \in {"empty", "ValueError"} THEN [l EXCEPT !.n = @ + 1]
    ELSE Ended(l, ev.kind)

\* producer's "except Exception as e": q.put(f"__ERROR__:{str(e)}")
put_error(l) == [l EXCEPT !.q = Append(@, <<ErrorMark>> \o l.err[1]), !.pc = "finally"]

\* producer's "finally": q.put("__DONE__")
put_done(l) == [l EXCEPT !.q = Append(@, DoneMark), !.pc = "end"]

\* one round of stream's "while True": tok = await q.get(), then break,
\* raise or yield; chat_ws adds a yielded token to full_response
consume(l) ==
    IF Head(l.q) = DoneMark THEN [l EXCEPT !.q = Tail(@), !.cpc = "ended"]
    ELSE IF Head(Head(l.q)) = ErrorMark
    THEN [l EXCEPT !.q = Tail(@), !.cpc = "raised", !.cerr = <<Tail(Head(l.q))>>]
    ELSE [l EXCEPT !.q = Tail(@), !.full_response = Append(@, Head(l.q))]

\* "".join of the tokens
RECURSIVE Joined(_)
Joined(toks) == IF toks = <<>> THEN <<>> ELSE Head(toks) \o Joined(Tail(toks))

\* the record chat_ws hands to append_chat_raw
ChatRecord(pid, full_response, now) ==
    [id |-> <<"chat_", now>>, client_ts |-> now, problem_id |-> <<pid>>, prompt |-> "hi",
     image_urls |-> <<>>, response |-> Joined(full_response)]

ChatEvent(event_type, sid, pid, now) ==
    [event_type |-> event_type, client_ts |-> now, session_id |-> sid,
     payload |-> [problem_id |-> <<pid>>, chat_id |-> <<"chat_", now>>, img_count |-> 0,
                  history_turns |-> 1]]

(***************************************************************************)
(* SpecStream: one turn of chat_ws.  The producer thread and the consumer  *)
(* on the event loop take their steps in any order; what the model API     *)
(* answers is chosen at each step.  The responses of one turn deliver at   *)
(* most MaxChunks events.  SpecStreamLive adds that both threads keep      *)
(* being scheduled.                                                        *)
(***************************************************************************)
\* chunk texts: ordinary text, and texts equal to or starting like the
\* markers the queue uses
ChunkTexts == {<<"a">>, DoneMark, <<ErrorMark, "x">>}

ResponseEvents ==
    {[kind |-> "chunk", text |-> t] : t \in ChunkTexts}
    \cup {[kind |-> k] : k \in {"empty", "ValueError", "ok", "ResourceExhausted", "Error"}}

CallOutcomes == {"stream", "ResourceExhausted", "Error"}

StreamInit ==
    /\ backend \in Backends
    /\ store = EmptyStore
    /\ resp = [status |-> "none", val |-> <<>>]
    /\ hist = <<>>
    /\ nops = 0
    /\ TwinInit /\ RaceIdle /\ CellIdle
    /\ pyplot = SettledPyplot
    /\ loop = 0
    /\ llm = LlmIdle

StreamFrame == UNCHANGED <<backend, resp, hist, nops, twinVars, raceVars, cellVars, pyplot, loop>>

\* chat_ws up to the start of the stream: the chat_prompt event, then the
\* producer thread is started
ChatPrompt(sid, pid) ==
    /\ llm.pc = "idle"
    /\ store' = append_event(backend, store, sid, ChatEvent(<<"chat", "prompt">>, sid, pid, 1),
                             1, [uuid |-> 1])
    /\ llm' = StreamStart
    /\ StreamFrame

GenerateContent(outcome) ==
    /\ llm.pc = "call"
    /\ llm' = generate_content(llm, outcome)
    /\ UNCHANGED store /\ StreamFrame

NextEvent(ev) ==
    /\ llm.pc = "iter"
    /\ ev.kind \in {"chunk", "empty", "ValueError"} => llm.n < MaxChunks
    /\ llm' = next_event(llm, ev)
    /\ UNCHANGED store /\ StreamFrame

\* time.sleep(retry_delay) returns
Sleep ==
    /\ llm.pc = "sleep"
    /\ llm' = [llm EXCEPT !.pc = "call"]
    /\ UNCHANGED store /\ StreamFrame

PutError ==
    /\ llm.pc = "except"
    /\ llm' = put_error(llm)
    /\ UNCHANGED store /\ StreamFrame

PutDone ==
    /\ llm.pc = "finally"
    /\ llm' = put_done(llm)
    /\ UNCHANGED store /\ StreamFrame

Consume ==
    /\ llm.pc # "idle" /\ llm.cpc = "wait" /\ llm.q # <<>>
    /\ llm' = consume(llm)
    /\ UNCHANGED store /\ StreamFrame

\* chat_ws after the stream ended: append_chat_raw, the chat_response event
StoreResponse(sid, pid) ==
    /\ llm.pc # "idle" /\ llm.cpc = "ended"
    /\ llm' = [llm EXCEPT !.cpc = "stored", !.stored = <<Joined(llm.full_response)>>]
    /\ store' = append_event(backend,
                    append_chat_raw("none", backend, store, sid,
                                    ChatRecord(pid, llm.full_response, 1), 2, [uuid |-> 2]),
                    sid, ChatEvent(<<"chat", "response">>, sid, pid, 1), 2, [uuid |-> 3])
    /\ StreamFrame

Producer ==
    \/ \E outcome \in CallOutcomes : GenerateContent(outcome)
    \/ \E ev \in ResponseEvents : NextEvent(ev)
    \/ Sleep
    \/ PutError
    \/ PutDone

Consumer ==
    \/ Consume
    \/ StoreResponse("s1", "p1")

StreamNext ==
    \/ ChatPrompt("s1", "p1")
    \/ Producer
    \/ Consumer

SpecStream == StreamInit /\ [][StreamNext]_vars

SpecStreamLive == SpecStream /\ WF_vars(Producer) /\ WF_vars(Consumer) /\ WF_vars(ChatPrompt("s1", "p1"))

(***************************************************************************)
(* SpecOverlap: NProcs requests in flight at once on one session and one   *)
(* problem, each inside ensure_session_test_type or inside                 *)
(* save_submit_final, interleaved at their storage calls (the code takes   *)
(* no lock, and the storage is shared by every worker that serves the      *)
(* routes).                                                                *)
(***************************************************************************)
OverlapStart(kind, intended) ==
    [kind |-> kind, pc |-> "start", intended |-> intended, existing |-> <<>>, status |-> 0]

OverlapStarts ==
    {OverlapStart("ensure", intended) : intended \in {"fe", "dv"}}
    \cup {OverlapStart("submit", "")}

OverlapInit ==
    /\ backend \in Backends
    /\ store = EmptyStore
    /\ resp = [status |-> "none", val |-> <<>>]
    /\ hist = <<>>
    /\ nops = 0
    /\ procs \in [ProcIds -> OverlapStarts]
    /\ TwinInit /\ CellIdle /\ PlotIdle

\* ensure_session_test_type, sessions.py:60: existing = read_session_manifest(...)
EnsureRead(self) ==
    /\ procs[self].kind = "ensure" /\ procs[self].pc = "start"
    /\ procs' = [procs EXCEPT ![self].pc = "read",
                              ![self].existing = read_session_manifest(backend, store, "s1")]
    /\ Tick /\ UNCHANGED store /\ RaceFrame

\* ensure_session_test_type, sessions.py:61-80: write a new manifest, raise
\* 409 or return the manifest read
EnsureDecide(self) ==
    /\ procs[self].kind = "ensure" /\ procs[self].pc = "read"
    /\ store' = EnsureWith(procs[self].existing, backend, store, "s1",
                           procs[self].intended, Now).store
    /\ procs' = [procs EXCEPT
                    ![self].pc = "done",
                    ![self].status = EnsureWith(procs[self].existing, backend, store, "s1",
                                                procs[self].intended, Now).status]
    /\ Tick /\ RaceFrame

\* save_submit_final, writer.py:171-172: write final_code.html
SubmitCode(self) ==
    /\ procs[self].kind = "submit" /\ procs[self].pc = "start"
    /\ store' = Write(backend, store, final_code_path("s1", "p1"), ProcCode(self))
    /\ procs' = [procs EXCEPT ![self].pc = "coded"]
    /\ Tick /\ RaceFrame

\* save_submit_final, writer.py:175-186: write meta.json
SubmitMetaWrite(self) ==
    /\ procs[self].kind = "submit" /\ procs[self].pc = "coded"
    /\ store' = Write(backend, store, final_meta_path("s1", "p1"),
                      JsonText(SubmitMeta(ProcCode(self), <<>>, Now)))
    /\ procs' = [procs EXCEPT ![self].pc = "done", ![self].status = 200]
    /\ Tick /\ RaceFrame

OverlapNext ==
    \/ \E self \in ProcIds : EnsureRead(self)
    \/ \E self \in ProcIds : EnsureDecide(self)
    \/ \E self \in ProcIds : SubmitCode(self)
    \/ \E self \in ProcIds : SubmitMetaWrite(self)

SpecOverlap == OverlapInit /\ [][OverlapNext]_vars

(***************************************************************************)
(* services/compile_human.py: compile_session_log reads events.jsonl,      *)
(* sorts the events and writes one line per event.  A stored line is the   *)
(* record it was dumped from, so json.loads of a line is the record.       *)
(***************************************************************************)
\* key=lambda x: x.get("client_ts", 0)
sort_key(ev) == Get(ev, "client_ts", 0)

\* x or y on timestamps: 0 and a missing value are falsy
OrElse(x, y) == IF x = 0 THEN y ELSE x

\* _pretty_line: ev.get("client_ts") or ev.get("server_ts") or ev.get("_ts", 0)
ts_ms(ev) == OrElse(OrElse(Get(ev, "client_ts", 0), Get(ev, "server_ts", 0)), Get(ev, "_ts", 0))

\* _pretty_line: the time shown and the upper-cased event type
pretty_line(ev) == [ts |-> ts_ms(ev), etype |-> Get(ev, "event_type", <<>>)]

\* list.sort(key=...) is stable: an element goes after every element whose
\* key is not greater than its own
InsertByKey(sorted, ev) ==
    LET k == Cardinality({i \in 1..Len(sorted) : sort_key(sorted[i]) <= sort_key(ev)})
    IN SubSeq(sorted, 1, k) \o <<ev>> \o SubSeq(sorted, k + 1, Len(sorted))

RECURSIVE SortedEvents(_)
SortedEvents(events) ==
    IF events = <<>> THEN <<>>
    ELSE InsertByKey(SortedEvents(SubSeq(events, 1, Len(events) - 1)), events[Len(events)])

\* compile_session_log up to the event lines: no journal or no event gives
\* no log
compile_session_log(b, st, sid) ==
    IF ~Exists(b, st, events_path(sid)) \/ Read(st, events_path(sid)) = <<>>
    THEN [status |-> "empty", val |-> <<>>, lines |-> <<>>]
    ELSE LET events == SortedEvents(Read(st, events_path(sid)))
         IN [status |-> "ok", val |-> events,
             lines |-> [i \in 1..Len(events) |-> pretty_line(events[i])]]

(***************************************************************************)
(* SpecCompile: events are appended to the journals, with and without a    *)
(* client timestamp, and the log of a session is compiled.                 *)
(***************************************************************************)
\* client timestamps of the appended records; 0 stands for a record without
\* the key
ClientTimes == {0, 1, 2}

CompileRecs ==
    {[event_type |-> <<"click">>, payload |-> <<>>]}
    \cup {[event_type |-> <<"click">>, payload |-> <<>>, client_ts |-> t] :
             t \in ClientTimes \ {0}}

CallCompileSessionLog(sid) ==
    /\ Step
    /\ resp' = compile_session_log(backend, store, sid)
    /\ hist' = Append(hist, Call("compile", sid, "", 0, FALSE, <<>>))
    /\ UNCHANGED store

CompileNext ==
    \/ \E sid \in Sids, record \in CompileRecs : CallAppendEvent(sid, record)
    \/ \E sid \in Sids : CallCompileSessionLog(sid)

SpecCompile == Init /\ [][CompileNext]_vars

(***************************************************************************)
(* SpecManifest: ensure_session_test_type called one time after another    *)
(* on a session whose manifest file is absent, a manifest written by       *)
(* /start, the document {} or an empty file, with reads that may fault.    *)
(***************************************************************************)
\* what sessions/<sid>/session.json holds at the start: a manifest, {}, ''
ManifestTexts(b, sid) ==
    {Read(start_session(b, EmptyStore, sid, "ann", "fe", TRUE, 0), manifest_path(sid)),
     JsonText(<<>>), <<>>}

ManifestInit ==
    /\ backend \in Backends
    /\ store \in {EmptyStore} \cup
                 UNION {{Write(backend, EmptyStore, manifest_path(sid), text) :
                            text \in ManifestTexts(backend, sid)} : sid \in Sids}
    /\ resp = [status |-> "none", val |-> <<>>]
    /\ hist = <<>>
    /\ nops = 0
    /\ TwinInit /\ RaceIdle /\ CellIdle /\ PlotIdle

CallEnsure(sid, intended, fault) ==
    LET e == ensure_session_test_type_under(fault, backend, store, sid, intended, Now) IN
    /\ Step
    /\ store' = e.store
    /\ resp' = [status |-> e.status, val |-> <<>>]
    /\ hist' = Append(hist, JournalCall("ensure", sid, fault, intended))

ManifestNext == \E sid \in Sids, intended \in {"fe", "DV"}, fault \in Faults :
                    CallEnsure(sid, intended, fault)

SpecManifest == ManifestInit /\ [][ManifestNext]_vars

(***************************************************************************)
(* SpecPartial: save_run_snapshot called one time after another without an *)
(* explicit index, where the write of meta.json may fail (a storage fault  *)
(* after code.html was written).                                           *)
(***************************************************************************)
\* save_run_snapshot whose second write may raise: code.html is stored, the
\* exception leaves the function, nothing is undone
save_run_snapshot_under(fault, b, st, sid, pid, code, idx, now) ==
    IF fault = "meta" THEN Write(b, st, run_code_path(sid, pid, idx), code)
    ELSE save_run_snapshot(b, st, sid, pid, code, idx, now)

\* outcomes of the two writes of one snapshot
WriteFaults == {"none", "meta"}

CallSnapshotUnder(sid, pid, code, fault) ==
    LET idx == next_run_index(backend, store, sid, pid) IN
    /\ Step
    /\ store' = save_run_snapshot_under(fault, backend, store, sid, pid, code, idx, Now)
    /\ resp' = IF fault = "meta" THEN [status |-> "raised", val |-> <<>>]
               ELSE [status |-> "ok", val |-> run_base(sid, pid, idx)]
    /\ hist' = Append(hist, [op |-> "run", sid |-> sid, pid |-> pid, idx |-> idx,
                             fault |-> fault])

PartialNext == \E sid \in Sids, pid \in Pids, code \in Codes, fault \in WriteFaults :
                   CallSnapshotUnder(sid, pid, code, fault)

SpecPartial == Init /\ [][PartialNext]_vars

(***************************************************************************)
(* Claims about the writer's functions (Spec).                             *)
(***************************************************************************)
RunCalls(sid, pid) ==
    SelectSeq(hist, LAMBDA c : c.op = "run" /\ c.sid = sid /\ c.pid = pid)

EventCalls(sid) == SelectSeq(hist, LAMBDA c : c.op = "event" /\ c.sid = sid)

\* C1: for any sequence of save_run_snapshot calls without an explicit index
\* on one (session, problem), on either backend, the k-th call writes index k
\* (indices start at 1, strictly increase, are never reused); the index is
\* computed from the stored run folders alone.
C1_KthCallWritesIndexK ==
    \A sid \in Sids, pid \in Pids :
        LET calls == RunCalls(sid, pid) IN
        (\A i \in 1..Len(calls) : ~calls[i].explicit)
            => \A k \in 1..Len(calls) : calls[k].idx = k

\* a run file: <runs>/<run folder>/<code.html | meta.json>
IsRunFile(p) ==
    \E sid \in Sids, pid \in Pids :
        IsPrefix(runs_path(sid, pid), p) /\ Len(p) = Len(runs_path(sid, pid)) + 2

\* C2: run snapshots are immutable: once run_NNNN/code.html and
\* run_NNNN/meta.json are written, no later save_run_snapshot (with or
\* without an explicit index), save_submit_final or save_diff_between_runs
\* changes or removes their content.
C2_RunSnapshotsImmutable ==
    [][\A p \in Keys(store) :
          IsRunFile(p) => (p \in Keys(store') /\ store'.files[p] = store.files[p])]_vars

\* the caller's fields of a stored line are the caller's record
KeepsRecord(line, rec) ==
    /\ DOMAIN rec \subseteq DOMAIN line
    /\ \A k \in DOMAIN rec : line[k] = rec[k]
    /\ {"server_ts", "event_id"} \subseteq DOMAIN line

Journal(sid) == ExistingText(backend, store, events_path(sid))

\* C7: the event journal is append-only: after the n-th of any sequence of
\* non-overlapping append_event calls on one session events.jsonl holds
\* exactly n lines, the i-th line being the i-th appended record (so no line
\* is ever changed or removed, and a record equal to an earlier one adds
\* another line).
C7_JournalIsCallHistory ==
    \A sid \in Sids :
        /\ Len(Journal(sid)) = Len(EventCalls(sid))
        /\ \A i \in 1..Len(EventCalls(sid)) :
              KeepsRecord(Journal(sid)[i], EventCalls(sid)[i].arg)

\* C7 witness: the same record appended twice, two lines stored
C7_Witness ==
    \E sid \in Sids :
        /\ Len(EventCalls(sid)) >= 2
        /\ EventCalls(sid)[1].arg = EventCalls(sid)[2].arg
        /\ Len(Journal(sid)) >= 2

(***************************************************************************)
(* Claims about the two backends (SpecTwin).                               *)
(***************************************************************************)
\* C5: LocalStorage and S3Storage are interchangeable: every write, read,
\* exists, list_dir and append of a common call sequence returns the same
\* result on both (same names with the same directory marker from list_dir,
\* same answer from exists for a directory/prefix).
C5_BackendsAgree ==
    /\ resL.ok = resS.ok
    /\ resL.ok => resL.val = resS.val

\* the immediate children of p among the stored files: leaf files by name,
\* folders by name with a trailing '/'
ImmediateChildren(st, p) ==
    {Last(q) : q \in {r \in Keys(st) : Len(r) = Len(p) + 1 /\ IsPrefix(p, r)}}
    \cup
    {q[Len(p) + 1] \o <<"/">> : q \in {r \in Keys(st) : Len(r) > Len(p) + 1 /\ IsPrefix(p, r)}}

\* C6: list_dir(path) returns exactly the immediate children of path, each
\* folder with a trailing '/', each leaf file without, no deeper descendant,
\* and an empty list (no error) for a path never created.
C6_ListDirImmediateChildren ==
    /\ resL.op = "list_dir" /\ resL.path \notin Keys(loc)
          => resL.ok /\ resL.val = ImmediateChildren(loc, resL.path)
    /\ resS.op = "list_dir" /\ resS.path \notin Keys(s3o)
          => resS.ok /\ resS.val = ImmediateChildren(s3o, resS.path)

(***************************************************************************)
(* Claims about run_dv_cells (SpecCells).                                  *)
(***************************************************************************)
\* a cell that fails whenever it is run
AlwaysFails(code) == \E i \in 1..Len(code) : code[i] \in {"bad", "raise", "rsyn"}

\* C3: for every cell list run_dv_cells returns without raising, with one
\* result per cell in input order; a failing cell (runtime exception or a
\* cell that does not parse) has the failure in its stderr and the cells
\* after it are still executed.
C3_CellsNeverAbort ==
    /\ raised = "none"
    /\ Len(results) = cellIdx - 1
    /\ \A i \in 1..Len(results) : AlwaysFails(cells[i]) => results[i].stderr # <<>>

(***************************************************************************)
(* Claims about the routes (SpecRoutes).                                   *)
(***************************************************************************)
Manifest(sid) == read_session_manifest(backend, store, sid)

\* the session's manifest records a test type
Locked(sid) == Manifest(sid) # <<>> /\ LockedType(Manifest(sid)[1]) # ""

\* C4: once a session's manifest records a test_type, every request whose
\* intended type differs from it case-insensitively is rejected with 409,
\* and no event, snapshot, run, submit or finish request changes the
\* recorded test_type.
C4_SessionLock ==
    [][\A sid \in Sids :
          Locked(sid) =>
             /\ Locked(sid)'
             /\ LockedType(Manifest(sid)[1])' = LockedType(Manifest(sid)[1])
             /\ (resp'.req.ensure /\ resp'.req.sid = sid
                 /\ Lower(resp'.req.intended) # Lower(LockedType(Manifest(sid)[1])))
                    => resp'.status = 409]_vars

\* C4 witness: a dv request was rejected on a session locked to fe, which
\* has also been finished
C4_Witness ==
    \E sid \in Sids :
        /\ Locked(sid)
        /\ LockedType(Manifest(sid)[1]) = "fe"
        /\ Manifest(sid)[1]["finished_at"] # <<>>
        /\ resp.status = 409
        /\ Lower(resp.req.intended) = "dv"

\* accepted snapshot requests of a problem, in order
SnapshotCalls(sid, pid) ==
    SelectSeq(hist, LAMBDA c : c.op = "snapshot_fe" /\ c.sid = sid /\ c.pid = pid)

\* C10: on the FE snapshot route the first snapshot of a problem is saved
\* without a diff and without error; every later snapshot, of index n, comes
\* with a persisted diff keyed (n-1, n), also when the previous code is the
\* empty string; the route then reports success with the saved run name.
C10_SnapshotRouteDiffs ==
    (hist # <<>> /\ Last(hist).op = "snapshot_fe" /\ resp.req.route = "snapshot_fe"
     /\ resp.status # 409)
    => LET c == Last(hist) IN
       /\ resp.status = 200
       /\ resp.val = RunName(c.idx)
       /\ Len(SnapshotCalls(c.sid, c.pid)) >= 2
             => diff_path(c.sid, c.pid, c.idx - 1, c.idx) \in Keys(store)

(***************************************************************************)
(* Claims about overlapping requests (SpecRace).                           *)
(***************************************************************************)
Appenders == {i \in ProcIds : procs[i].kind = "append"}

Snapshotters == {i \in ProcIds : procs[i].kind = "snapshot"}

Done(i) == procs[i].pc = "done"

\* request i wrote its journal / its code.html, and no request wrote the
\* same file after it
LastWriter(i, S, same(_, _)) ==
    /\ procs[i].writeAt > 0
    /\ \A j \in S \ {i} : same(i, j) => procs[j].writeAt < procs[i].writeAt

SamePath(i, j) == procs[i].path = procs[j].path

HasLine(text, line) == \E k \in 1..Len(text) : <<text[k]>> = line

\* C8: append_jsonl is an unlocked read-then-write of the whole file: the
\* journal is always the full content computed by the last writer (what it
\* read plus its line), so of two overlapping appends to one path only one
\* record may remain; the last writer keeps the record of the append that
\* wrote last before its read, and appends to different paths always both
\* persist.
C8_LastWriterWins ==
    \A i \in Appenders :
        /\ LastWriter(i, Appenders, SamePath)
              => Read(store, procs[i].path) = procs[i].existing \o procs[i].line
        /\ Done(i) /\ (\A j \in Appenders \ {i} : ~SamePath(i, j))
              => Read(store, procs[i].path) = procs[i].line
        /\ \A j \in Appenders \ {i} :
              (/\ SamePath(i, j) /\ LastWriter(i, Appenders, SamePath)
               /\ procs[j].writeAt > 0 /\ procs[j].writeAt < procs[i].readAt
               /\ \A k \in Appenders \ {i, j} :
                     SamePath(i, k) => ~(/\ procs[j].writeAt < procs[k].writeAt
                                         /\ procs[k].writeAt < procs[i].readAt))
                 => /\ HasLine(Read(store, procs[i].path), procs[j].line)
                    /\ HasLine(Read(store, procs[i].path), procs[i].line)

\* C8 witness: two overlapping appends to one path are done and the journal
\* holds one record only
C8_Witness ==
    \E i \in Appenders, j \in Appenders :
        /\ i # j /\ SamePath(i, j) /\ Done(i) /\ Done(j)
        /\ procs[i].readAt < procs[j].writeAt /\ procs[j].readAt < procs[i].writeAt
        /\ Len(Read(store, procs[i].path)) = 1

SameProblem(i, j) == procs[i].pid = procs[j].pid

SameRun(i, j) == SameProblem(i, j) /\ procs[i].idx = procs[j].idx

\* C9: run-index allocation is an unlocked scan-then-increment: the run
\* folder a save wrote to holds the code of the last request that wrote
\* code.html there (so two overlapping saves of one problem that obtained
\* the same index leave only the later writer's code), and saves for
\* different problems never write to the same folder.
C9_IndexRace ==
    \A i \in Snapshotters :
        /\ LastWriter(i, Snapshotters, SameRun)
              => Read(store, run_code_path("s1", procs[i].pid, procs[i].idx)) = ProcCode(i)
        /\ \A j \in Snapshotters \ {i} :
              (~SameProblem(i, j) /\ procs[i].idx > 0 /\ procs[j].idx > 0)
                 => run_base("s1", procs[i].pid, procs[i].idx)
                       # run_base("s1", procs[j].pid, procs[j].idx)
        /\ Done(i) /\ (\A j \in Snapshotters \ {i} : ~SameProblem(i, j))
              => /\ procs[i].idx = 1
                 /\ Read(store, run_code_path("s1", procs[i].pid, 1)) = ProcCode(i)

\* C9 witness: on S3 two overlapping saves of one problem obtained the same
\* index and both are done; the folder holds the later writer's code
C9_Witness ==
    \E i \in Snapshotters, j \in Snapshotters :
        /\ backend = "s3"
        /\ i # j /\ SameRun(i, j) /\ Done(i) /\ Done(j)
        /\ procs[i].writeAt < procs[j].writeAt
        /\ Read(store, run_code_path("s1", procs[i].pid, procs[i].idx)) = ProcCode(j)

(***************************************************************************)
(* Claims about diffs and final submissions (Spec).                        *)
(***************************************************************************)
RunIndices == 1..(MaxOps + 1)

StoredRunCode(sid, pid, i) == ExistingText(backend, store, run_code_path(sid, pid, i))

\* C11: diffs are derived data: every persisted IIII_to_JJJJ.patch equals
\* the unified diff of the code stored in run_IIII and the code stored in
\* run_JJJJ, so it can be recomputed from the two snapshots.
C11_DiffsDerived ==
    \A sid \in Sids, pid \in Pids, i \in RunIndices, j \in RunIndices :
        diff_path(sid, pid, i, j) \in Keys(store)
           => /\ run_code_path(sid, pid, i) \in Keys(store)
              /\ run_code_path(sid, pid, j) \in Keys(store)
              /\ Read(store, diff_path(sid, pid, i, j))
                    = unified_diff(StoredRunCode(sid, pid, i), StoredRunCode(sid, pid, j),
                                   RunName(i), RunName(j))

SubmitCalls(sid, pid) ==
    SelectSeq(hist, LAMBDA c : c.op = "submit" /\ c.sid = sid /\ c.pid = pid)

SubmitFiles(sid, pid) == {p \in Keys(store) : IsPrefix(submit_path(sid, pid), p)}

StoredSubmitMeta(sid, pid) == JsonLoad(Read(store, final_meta_path(sid, pid)))

\* C12: after save_submit_final has been called for a (session, problem),
\* submit/ holds exactly final_code.html and meta.json, both those of the
\* latest call: its code, and the metadata built from its code and its
\* extra fields alone (no field of an earlier call remains).
C12_SubmitOverwrites ==
    \A sid \in Sids, pid \in Pids :
        SubmitCalls(sid, pid) # <<>>
           => LET c == Last(SubmitCalls(sid, pid)).arg
                  m == StoredSubmitMeta(sid, pid)
              IN /\ SubmitFiles(sid, pid) = {final_code_path(sid, pid), final_meta_path(sid, pid)}
                 /\ Read(store, final_code_path(sid, pid)) = c.code
                 /\ \E ts \in 1..nops : m = SubmitMeta(c.code, c.extra, ts)

\* C12 witness: a second submit, of other code and without the extra fields
\* of the first, has replaced the first
C12_Witness ==
    \E sid \in Sids, pid \in Pids :
        /\ Len(SubmitCalls(sid, pid)) = 2
        /\ SubmitCalls(sid, pid)[1].arg.extra # <<>>
        /\ SubmitCalls(sid, pid)[2].arg.extra = <<>>
        /\ SubmitCalls(sid, pid)[1].arg.code # SubmitCalls(sid, pid)[2].arg.code
        /\ "stdout" \notin DOMAIN StoredSubmitMeta(sid, pid)

\* C13: the metadata written by save_submit_final always contains a server
\* timestamp, code_len equal to the length of the submitted code and
\* kind = "submit", whatever extra fields the caller passes (those of the
\* DV submit route included), the extra fields being added alongside.
C13_SubmitMetaFields ==
    \A sid \in Sids, pid \in Pids :
        SubmitCalls(sid, pid) # <<>>
           => LET c == Last(SubmitCalls(sid, pid)).arg
                  m == StoredSubmitMeta(sid, pid)
              IN /\ {"server_ts", "code_len", "kind"} \subseteq DOMAIN m
                 /\ m["code_len"] = Len(c.code)
                 /\ m["kind"] = "submit"
                 /\ c.extra # <<>> => DOMAIN c.extra \subseteq DOMAIN m

(***************************************************************************)
(* Claims about the runner (SpecRunner).                                   *)
(***************************************************************************)
SingleCalls == {i \in DOMAIN hist : hist[i].op = "single"}

ManyCalls == {i \in DOMAIN hist : hist[i].op = "many"}

\* what the code of call i did when it was executed
Executed(i) == RunOnce(hist[i].arg, hist[i].before)

\* C14: for any code that raises an exception (code that does not parse
\* included) run_dv_code does not raise and returns plot = None, a stderr
\* containing "Code Error" and as stdout what the code printed before the
\* failure.
C14_ErrorsReturned ==
    \A i \in SingleCalls :
        Executed(i).exc # "none"
           => /\ hist[i].r.raised = "none"
              /\ hist[i].r.plot = <<>>
              /\ "Code Error" \in Range(hist[i].r.stderr)
              /\ hist[i].r.stdout = Executed(i).out

CellFailed(res) == "Code Error" \in Range(res.stderr)

\* C15: an execution error never produces an image: a run_dv_code call or
\* a run_dv_cells cell whose code raised has plot = None, also when the code
\* drew on a figure before raising.
C15_NoPlotOnError ==
    /\ \A i \in SingleCalls :
          (Executed(i).exc # "none" /\ hist[i].r.raised = "none") => hist[i].r.plot = <<>>
    /\ \A i \in ManyCalls : \A j \in DOMAIN hist[i].r.results :
          CellFailed(hist[i].r.results[j]) => hist[i].r.results[j].plot = <<>>

Output(r) == [stdout |-> r.stdout, stderr |-> r.stderr, plot |-> r.plot, raised |-> r.raised]

\* C16: the result of run_dv_code is independent of prior calls: whatever
\* figures, current figure and style / rc settings earlier run_dv_code or
\* run_dv_cells calls left behind, stdout, stderr and the captured figure
\* are those of the same code run in a process that ran nothing before.
C16_IndependentOfPriorCalls ==
    \A i \in SingleCalls :
        Output(hist[i].r) = Output(run_dv_code(hist[i].arg, ProcessStart))

\* C17: after successful execution the captured plot is that of the first
\* figure in creation order that has drawable content (empty figures before
\* it skipped, figures after it ignored), and when capture finishes no
\* figure remains open, also when serializing the figure fails.
C17_FirstFigureInCreationOrder ==
    \A i \in SingleCalls :
        Executed(i).exc = "none"
           => /\ hist[i].r.plt.figs = <<>>
              /\ hist[i].r.plot # <<>>
                    => hist[i].r.plot = FirstWithContent(Executed(i).figs, 1)

NoContent(figs) == \A k \in DOMAIN figs : ~FigureHasContent(figs[k])

NoPlotWarning == "Warning: No plot was created"

\* C18: for code that completes without exception and leaves no figure with
\* drawable content run_dv_code returns plot = None, stderr = what the code
\* wrote to stderr followed by the "No plot was created" warning, and stdout
\* exactly as printed; when a plot is produced no warning is added.
C18_NoPlotWarning ==
    \A i \in SingleCalls :
        Executed(i).exc = "none"
           => /\ NoContent(Executed(i).figs)
                    => /\ hist[i].r.raised = "none"
                       /\ hist[i].r.plot = <<>>
                       /\ hist[i].r.stderr = Append(Executed(i).err, NoPlotWarning)
                       /\ hist[i].r.stdout = Executed(i).out
              /\ hist[i].r.plot # <<>>
                    => /\ hist[i].r.stderr = Executed(i).err
                       /\ hist[i].r.stdout = Executed(i).out

\* C18 witness: code that printed to stdout and stderr and drew nothing
\* has returned, and so has code that drew a plot
C18_Witness ==
    /\ \E i \in SingleCalls :
          /\ Executed(i).exc = "none" /\ NoContent(Executed(i).figs)
          /\ hist[i].r.stderr = <<"eprinted", NoPlotWarning>>
          /\ hist[i].r.stdout = <<"printed">>
    /\ \E i \in SingleCalls : hist[i].r.plot # <<>>

\* cell j of the call ran a statement binding the name x
Binds(cs, trace, j) == \E k \in Range(trace[j].ran) : cs[j][k] = "bind"

\* C19: all cells of one run_dv_cells call share one namespace: a name
\* bound by cell i (also before cell i failed part-way) is in the namespace
\* every later cell finds, so a later cell using it does not fail on it;
\* figures are cleared between cells, so a cell's plot holds only what that
\* cell drew.
C19_SharedNamespace ==
    \A c \in ManyCalls :
        LET cs == hist[c].arg
            r == hist[c].r
        IN /\ \A j \in DOMAIN r.trace : \A i \in 1..(j - 1) :
                 Binds(cs, r.trace, i)
                    => /\ "x" \in r.trace[j].before
                       /\ (j \in DOMAIN r.results /\ cs[j] = <<"use", "draw">>)
                             => ~CellFailed(r.results[j])
           /\ \A j \in DOMAIN r.results :
                 r.results[j].plot # <<>>
                    => \A m \in r.results[j].plot[1].marks : m.by = j

\* C19 witness: a cell bound x and then failed, a cell that drew came
\* before, and the next cell used x and drew its own plot
C19_Witness ==
    \E c \in ManyCalls :
        /\ hist[c].arg = <<<<"bind", "raise">>, <<"use", "draw">>>>
        /\ Len(hist[c].r.results) = 2
        /\ CellFailed(hist[c].r.results[1])
        /\ hist[c].r.results[2].stderr = <<>>
        /\ hist[c].r.results[2].plot # <<>>

(***************************************************************************)
(* Claims about DV requests in flight together (SpecLoop).                 *)
(***************************************************************************)
\* request i is between its reset of pyplot and its return
Executing(i) == procs[i].pc \in {"exec", "capture"}

InFlight(i) == procs[i].pc # "done"

Artists(figs) == UNION {figs[k].marks : k \in DOMAIN figs}

\* the artists of a returned plot (None: no artists)
PlotArtists(plot) == IF plot = <<>> THEN {} ELSE plot[1].marks

\* C20: rendering state is isolated across DV requests in flight together:
\* executions on pyplot's state never overlap, an open figure drawn by a
\* request still in flight is touched by that request's handler only, and
\* every returned plot contains only what that request's own code (for a
\* notebook run: that cell's code) drew.
C20_RenderingIsolated ==
    /\ \A i \in ProcIds, j \in ProcIds : (Executing(i) /\ Executing(j)) => i = j
    /\ \A i \in ProcIds : Executing(i) => loop = i
    /\ \A m \in Artists(pyplot.figs) : InFlight(m.by) => loop = m.by
    /\ \A i \in ProcIds :
          (procs[i].kind = "single" /\ procs[i].ret # <<>>)
             => \A m \in PlotArtists(procs[i].ret[1].plot) : m.by = i
    /\ \A i \in ProcIds :
          (procs[i].kind = "many" /\ procs[i].ret # <<>>)
             => \A j \in DOMAIN procs[i].ret[1].results :
                   \A m \in PlotArtists(procs[i].ret[1].results[j].plot) : m.by = j

\* C20 witness: one request has drawn and not yet returned while another
\* is waiting for the event loop
C20_Witness ==
    \E i \in ProcIds, j \in ProcIds :
        /\ i # j
        /\ Executing(i) /\ Artists(pyplot.figs) # {}
        /\ procs[j].pc = "queued"

(***************************************************************************)
(* Claims of the third group.                                              *)
(***************************************************************************)
\* the request just answered asked for another test type than the one the
\* session's manifest recorded before it
Mismatched(sid) ==
    /\ Locked(sid)
    /\ resp'.req.ensure /\ resp'.req.sid = sid
    /\ Lower(resp'.req.intended) # Lower(LockedType(Manifest(sid)[1]))

\* C21: a request whose intended test type mismatches the session's locked
\* type is rejected before any persistence: the manifest, the event journal,
\* run snapshots, diffs and the final submission (every stored file) are
\* exactly as before the request.
C21_RejectedBeforePersistence ==
    [][\A sid \in Sids : Mismatched(sid) => (resp'.status = 409 /\ store' = store)]_vars

\* C21 witness: a submit_fe request was rejected on a session locked to dv
\* that already holds a journal
C21_Witness ==
    \E sid \in Sids :
        /\ resp.status = 409 /\ resp.req.route = "submit_fe" /\ resp.req.sid = sid
        /\ Locked(sid) /\ LockedType(Manifest(sid)[1]) = "dv"
        /\ events_path(sid) \in Keys(store)

\* C22: append_jsonl adds server_ts and event_id to the stored record
\* exactly when the caller's record lacks them and keeps caller-supplied
\* values otherwise.  Stated for the append_jsonl of the two storage
\* backends: the line stored by a successful append carries both fields.
C22_AppendStamps ==
    /\ (resL.op = "append" /\ resL.ok)
          => {"server_ts", "event_id"} \subseteq DOMAIN Last(loc.files[resL.path])
    /\ (resS.op = "append" /\ resS.ok)
          => {"server_ts", "event_id"} \subseteq DOMAIN Last(s3o.files[resS.path])

\* the lines stored at p ('' when nothing is stored there)
LinesAt(st, p) == IF p \in Keys(st) THEN st.files[p] ELSE <<>>

\* the call of the step just taken
ThisCall == Last(hist')

\* the journal the claim sends the record to: the problem's chat.jsonl when
\* the record holds a problem id, raw/chat.jsonl when it holds none
ClaimedChatTarget(sid, record) ==
    IF ProblemIdOf(record) # <<>> THEN chat_path(sid, ProblemIdOf(record)[1])
    ELSE raw_chat_path(sid)

\* C23: append_chat_raw appends the record to
\* sessions/<sid>/problems/<pid>/chat.jsonl whenever a problem_id is present
\* in the record, and to sessions/<sid>/raw/chat.jsonl only when none is
\* present; exactly one of the two journals grows by one line and no other
\* stored file changes (stated for calls whose storage does not fault).
C23_ChatJournalChosen ==
    [][(hist' # hist /\ ThisCall.op = "chat" /\ ThisCall.fault = "none")
         => LET target == ClaimedChatTarget(ThisCall.sid, ThisCall.arg) IN
            /\ Len(LinesAt(store', target)) = Len(LinesAt(store, target)) + 1
            /\ \A p \in Keys(store) \cup Keys(store') :
                  p # target => LinesAt(store', p) = LinesAt(store, p)]_vars

\* C28: append_jsonl treats only absence of the journal as empty content:
\* when reading the existing journal fails for any other reason (a storage
\* fault), the fault propagates to the caller and the stored journal keeps
\* all its previous records.
C28_FaultKeepsJournal ==
    [][(hist' # hist /\ ThisCall.fault = "read")
         => \A p \in Keys(store) :
               /\ p \in Keys(store')
               /\ \A i \in 1..Len(store.files[p]) :
                     /\ i <= Len(store'.files[p])
                     /\ store'.files[p][i] = store.files[p][i]]_vars

\* the source strings of a list of cells
Sources(cs) == [i \in 1..Len(cs) |-> cs[i].source]

\* P of the call: the previous snapshot's cells ([] without a "cells" key)
PrevCells == IF "cells" \in DOMAIN hist[1].prev THEN hist[1].prev.cells ELSE <<>>

\* C24: for previous cells P and current cells C, _compute_nb_diff returns
\* added_cells = max(0, |C|-|P|), removed_cells = max(0, |P|-|C|),
\* modified_cells = the ascending positions i < min(|P|,|C|) whose source
\* strings differ, and total_changes = added + removed + |modified|; so
\* total_changes = 0 exactly when P and C are equal, and [a,b] -> [a,x,c]
\* gives modified [1], added 1, removed 0, total 2.
C24_NotebookDiff ==
    resp.status = "ok" =>
       LET P == Sources(PrevCells)
           C == Sources(hist[1].cells)
           d == resp.val
           shorter == IF Len(P) <= Len(C) THEN Len(P) ELSE Len(C)
       IN /\ d.added_cells = (IF Len(C) > Len(P) THEN Len(C) - Len(P) ELSE 0)
          /\ d.removed_cells = (IF Len(P) > Len(C) THEN Len(P) - Len(C) ELSE 0)
          /\ \A k \in 1..Len(d.modified_cells) - 1 :
                d.modified_cells[k] < d.modified_cells[k + 1]
          /\ Range(d.modified_cells) = {i \in 0..shorter - 1 : P[i + 1] # C[i + 1]}
          /\ d.total_changes = d.added_cells + d.removed_cells + Len(d.modified_cells)
          /\ (d.total_changes = 0) <=> (P = C)
          /\ (P = <<"a", "b">> /\ C = <<"a", "x", "c">>)
                => d = [added_cells |-> 1, removed_cells |-> 0,
                        modified_cells |-> <<1>>, total_changes |-> 2]

\* C24 witness: the diff of [a,b] against [a,x,c] has been computed
C24_Witness ==
    /\ resp.status = "ok"
    /\ Sources(PrevCells) = <<"a", "b">>
    /\ Sources(hist[1].cells) = <<"a", "x", "c">>
    /\ resp.val.modified_cells = <<1>>

\* a file below sessions/<sid>/problems/<pid>/submit
InSubmit(sid, pid, p) ==
    Len(p) > 5 /\ p[2] = Lit(sid) /\ p[4] = Lit(pid) /\ p[5] = Lit("submit")

\* C25: finalization is orthogonal to runs: save_submit_final changes only
\* the submit/ location of that problem (run snapshots, diffs and the next
\* run index are unchanged), and a save_run_snapshot after a final
\* submission still succeeds with the next index and leaves the final
\* submission unchanged.
C25_FinalizationOrthogonal ==
    [][hist' # hist =>
         /\ ThisCall.op = "submit" =>
               /\ \A p \in Keys(store) \cup Keys(store') :
                     ~InSubmit(ThisCall.sid, ThisCall.pid, p)
                        => LinesAt(store', p) = LinesAt(store, p)
               /\ \A sid \in Sids, pid \in Pids :
                     next_run_index(backend, store', sid, pid)
                        = next_run_index(backend, store, sid, pid)
         /\ ThisCall.op = "run" =>
               /\ resp'.status = "ok"
               /\ ~ThisCall.explicit
                     => ThisCall.idx = next_run_index(backend, store, ThisCall.sid, ThisCall.pid)
               /\ run_code_path(ThisCall.sid, ThisCall.pid, ThisCall.idx) \in Keys(store')
               /\ \A sid \in Sids, pid \in Pids : \A p \in Keys(store) \cup Keys(store') :
                     InSubmit(sid, pid, p) => LinesAt(store', p) = LinesAt(store, p)]_vars

\* C25 witness: a snapshot without an explicit index was saved right after
\* a final submission of the same problem, which itself followed a snapshot
C25_Witness ==
    \E k \in 1..Len(hist) - 2 :
        /\ k + 2 = Len(hist)
        /\ hist[k].op = "run" /\ hist[k + 1].op = "submit" /\ hist[k + 2].op = "run"
        /\ ~hist[k + 2].explicit
        /\ hist[k].pid = hist[k + 1].pid /\ hist[k + 1].pid = hist[k + 2].pid
        /\ final_code_path(hist[k].sid, hist[k].pid) \in Keys(store)

\* C26: every record in a session's events.jsonl, whichever route appended
\* it (single event, FE snapshot/submit, DV run/submit), carries event_type,
\* payload, a timestamp field and session_id.
C26_EventStructure ==
    \A sid \in Sids :
        \A i \in 1..Len(LinesAt(store, events_path(sid))) :
            LET line == LinesAt(store, events_path(sid))[i] IN
            /\ {"event_type", "payload", "session_id"} \subseteq DOMAIN line
            /\ {"client_ts", "server_ts"} \cap DOMAIN line # {}

\* C27: storage round trip on both backends: read(p) after write(p, b)
\* returns b, and after a second write(p, b2) returns b2; exists(p) is false
\* before the first write to p and true after; read of a never-written path
\* fails while exists never raises.  (A path is stored exactly when a write
\* or an append to it succeeded: nothing deletes.)
C27_RoundTrip ==
    /\ \A p \in TwinQueries \ {<<>>} :
          /\ LocalExists(loc, p) <=> p \in Keys(loc)
          /\ S3Exists(s3o, p) <=> p \in Keys(s3o)
          /\ LocalCanRead(loc, p) <=> p \in Keys(loc)
          /\ S3CanRead(s3o, p) <=> p \in Keys(s3o)
    /\ (resL.op = "write" /\ resL.ok)
          => (LocalCanRead(loc, resL.path) /\ Read(loc, resL.path) \in TwinTexts)
    /\ (resS.op = "write" /\ resS.ok)
          => (S3CanRead(s3o, resS.path) /\ Read(s3o, resS.path) \in TwinTexts)
    /\ resL.op = "exists" => resL.ok
    /\ resS.op = "exists" => resS.ok

\* C29: ensure_session_test_type writes a session manifest only when no
\* manifest is stored for that session: an existing manifest is never
\* replaced by it, also when reading the stored manifest fails or yields an
\* empty or unparsable document.
C29_ManifestNeverReplaced ==
    [][\A sid \in Sids :
          manifest_path(sid) \in Keys(store)
             => LinesAt(store', manifest_path(sid)) = LinesAt(store, manifest_path(sid))]_vars

\* C30: within one run_dv_cells call each cell's statements are executed at
\* most once: whatever exception a cell raises (including a SyntaxError
\* raised while the cell is running), none of its side effects is applied
\* twice.
C30_CellsRunOnce ==
    \A i \in 1..Len(execCount) : execCount[i] <= 1

(***************************************************************************)
(* Claims of the fourth group.                                             *)
(***************************************************************************)
\* the calls made so far for one problem whose meta.json write failed
PartialCalls(sid, pid) ==
    {k \in 1..Len(hist) : hist[k].sid = sid /\ hist[k].pid = pid /\ hist[k].fault = "meta"}

\* C31: partial failure is recoverable: if save_run_snapshot writes
\* code.html and the following meta.json write fails, the error propagates,
\* nothing is rolled back, and the next save_run_snapshot for that problem
\* uses a strictly higher index instead of reusing or overwriting the
\* partially written one.
C31_PartialFailureRecoverable ==
    /\ (hist # <<>> /\ Last(hist).fault = "meta")
          => /\ resp.status = "raised"
             /\ run_code_path(Last(hist).sid, Last(hist).pid, Last(hist).idx) \in Keys(store)
    /\ \A sid \in Sids, pid \in Pids : \A k \in PartialCalls(sid, pid) :
          \A j \in k + 1..Len(hist) :
             (hist[j].sid = sid /\ hist[j].pid = pid) => hist[j].idx > hist[k].idx

\* what the claim says of one answered POST /run/dv: st is the execution of
\* the code, r what run_dv_code returned for it
RunDvAnswered(sid, st, r) ==
    /\ Len(LinesAt(store', events_path(sid))) = Len(LinesAt(store, events_path(sid))) + 1
    /\ Last(LinesAt(store', events_path(sid))).event_type = <<"dv", "run">>
    /\ resp'.status = 400 <=> (r.stderr # <<>> /\ r.plot = <<>>)
    /\ resp'.status = 400 => resp'.val = r.stderr
    /\ resp'.status = 200 => resp'.val = r
    /\ st.exc = "none" => resp'.status = 200

\* C32: POST /run/dv appends exactly one dv_run event for every run attempt
\* that passes the lock check, before the response is decided; it answers
\* 400 with stderr as detail exactly when stderr is non-empty and no plot was
\* produced, and otherwise returns stdout, stderr and plot; a run that
\* completes without an execution error is not answered with an error.
C32_RunDvAnswers ==
    [][(hist' # hist /\ ThisCall.op = "run_dv")
         => RunDvAnswered(ThisCall.sid, RunOnce(ThisCall.arg, pyplot),
                          run_dv_code(ThisCall.arg, pyplot))]_vars

\* the snapshots a problem has: its notebook.json files
NotebooksOf(fs, sid, pid) ==
    {p \in Keys(fs) : Len(p) = 7 /\ IsPrefix(nb_runs_root(sid, pid), p)
                         /\ Last(p) = Lit("notebook.json")}

\* what the claim says of a call that is snapshot number n of its problem
NbSnapshotFiled(sid, pid, n, current_cells) ==
    /\ resp'.val = n
    /\ nb_notebook_path(sid, pid, n) \in Keys(loc')
    /\ JsonLoad(loc'.files[nb_notebook_path(sid, pid, n)]).cells = current_cells
    /\ n = 1 => /\ nb_diff_path(sid, pid, n) \notin Keys(loc')
                /\ nb_changes_path(sid, pid, n) \notin Keys(loc')
    /\ n > 1 => /\ nb_diff_path(sid, pid, n) \in Keys(loc')
                /\ JsonLoad(loc'.files[nb_diff_path(sid, pid, n)]).from_run = n - 1
                /\ JsonLoad(loc'.files[nb_diff_path(sid, pid, n)]).to_run = n
                /\ JsonLoad(loc'.files[nb_diff_path(sid, pid, n)]).modified_cells
                      = compute_nb_diff(JsonLoad(loc.files[nb_notebook_path(sid, pid, n - 1)]),
                                        current_cells).modified_cells
                /\ JsonLoad(loc'.files[nb_diff_path(sid, pid, n)]).added_cells
                      = compute_nb_diff(JsonLoad(loc.files[nb_notebook_path(sid, pid, n - 1)]),
                                        current_cells).added_cells

\* C33: on the notebook snapshot route the first snapshot of a problem gets
\* index 1 and writes notebook.json without diff.json or changes.txt; every
\* later call gets the previous index plus one, n, and writes notebook.json
\* plus a diff.json with from_run = n-1 and to_run = n computed against the
\* cells stored in snapshot n-1.
C33_NotebookSnapshots ==
    [][(hist' # hist /\ ThisCall.op = "snapshot_dvnb")
         => NbSnapshotFiled(ThisCall.sid, ThisCall.pid,
                            Cardinality(NotebooksOf(loc, ThisCall.sid, ThisCall.pid)) + 1,
                            ThisCall.arg)]_vars

\* the texts _sync_iter yielded for model call k, in order
RECURSIVE ChunksOf(_, _)
ChunksOf(emitted, k) ==
    IF emitted = <<>> THEN <<>>
    ELSE (IF Head(emitted).call = k THEN <<Head(emitted).text>> ELSE <<>>)
         \o ChunksOf(Tail(emitted), k)

AllExhausted(outcomes) == \A k \in DOMAIN outcomes : outcomes[k] = "ResourceExhausted"

\* _sync_iter has returned or raised
LeftSyncIter == llm.pc \in {"except", "finally", "end"}

C34_Retries ==
    llm.pc # "idle"
       => /\ llm.calls <= 4
          /\ Len(llm.outcomes) <= llm.calls /\ llm.calls <= Len(llm.outcomes) + 1
          /\ \A k \in 1..(llm.calls - 1) : llm.outcomes[k] = "ResourceExhausted"
          /\ LeftSyncIter
                => /\ llm.calls = Len(llm.outcomes)
                   /\ llm.err = <<RateLimitError>>
                         <=> (Len(llm.outcomes) = 4 /\ AllExhausted(llm.outcomes))
                   /\ Last(llm.outcomes) = "Error" => llm.err = <<<<"boom">>>>
                   /\ Last(llm.outcomes) = "ok" => llm.err = <<>>

StreamOver == llm.pc = "end" /\ llm.cpc \in {"stored", "raised"}

PlainChunks ==
    \A i \in DOMAIN llm.emitted :
        llm.emitted[i].text # DoneMark /\ Head(llm.emitted[i].text) # ErrorMark

\* C35: the response stored for a chat turn after a stream that ends
\* successfully is the chunk sequence of exactly one model call: it holds no
\* chunks delivered by an attempt that was then aborted by a rate-limit
\* error, and no retry-notice text.  (Stated for responses whose chunks do
\* not read like the queue's markers.)
C35_StoredIsOneCall ==
    (llm.pc # "idle" /\ llm.stored # <<>> /\ PlainChunks)
       => \E k \in 1..Len(llm.outcomes) :
             /\ llm.outcomes[k] = "ok"
             /\ llm.stored[1] = Joined(ChunksOf(llm.emitted, k))

\* C38: GeminiProvider.stream delivers to its consumer every chunk the
\* producer thread emits, in emission order, and then ends: after the
\* producer finishes or fails the consumer loop ends normally, or raises the
\* producer's error after all earlier chunks were delivered, whatever the
\* text of the chunks.
C38_EveryChunkDelivered ==
    (llm.pc = "end" /\ llm.cpc # "wait")
       => /\ llm.full_response = [i \in DOMAIN llm.emitted |-> llm.emitted[i].text]
          /\ llm.cpc = "raised" <=> llm.err # <<>>
          /\ llm.cpc = "raised" => llm.cerr = llm.err

\* request i passed the lock check as an operation of the given type
Accepted(i, intended) ==
    /\ procs[i].kind = "ensure" /\ procs[i].intended = intended
    /\ procs[i].pc = "done" /\ procs[i].status = 200

\* C36: when two requests with different intended test types arrive
\* concurrently for a session that has no manifest yet, at most one of them
\* passes the lock check: in no execution are both an fe operation and a dv
\* operation accepted for the same session.
C36_OneTypeAccepted ==
    ~(\E i \in ProcIds, j \in ProcIds : Accepted(i, "fe") /\ Accepted(j, "dv"))

\* the save_submit_final calls of the behaviour
Submitters == {i \in ProcIds : procs[i].kind = "submit"}

\* C37: after any set of save_submit_final calls for one (session, problem)
\* has completed, overlapping calls included, submit/final_code.html and
\* submit/meta.json stem from the same call: meta.code_len is the length of
\* the stored final code.
C37_FinalPairConsistent ==
    (Submitters # {} /\ \A i \in Submitters : procs[i].pc = "done")
       => JsonLoad(Read(store, final_meta_path("s1", "p1"))).code_len
             = Len(Read(store, final_code_path("s1", "p1")))

\* the order the specification gives the events: the client timestamp, the
\* server timestamp when the record has none, zero when it has neither
StatedKey(ev) ==
    IF "client_ts" \in DOMAIN ev THEN ev["client_ts"]
    ELSE IF "server_ts" \in DOMAIN ev THEN ev["server_ts"]
    ELSE 0

\* out holds the events of journal ordered by Key, events with equal keys in
\* journal order
OrderedBy(Key(_), journal, out) ==
    /\ Len(out) = Len(journal)
    /\ \E pi \in [1..Len(journal) -> 1..Len(journal)] :
          /\ \A i \in 1..Len(journal) : out[i] = journal[pi[i]]
          /\ \A i \in 1..Len(journal), j \in 1..Len(journal) :
                i < j => \/ Key(journal[pi[i]]) < Key(journal[pi[j]])
                         \/ /\ Key(journal[pi[i]]) = Key(journal[pi[j]])
                            /\ pi[i] < pi[j]

\* the last call compiled the log of a session
Compiled == hist # <<>> /\ hist[Len(hist)].op = "compile"

\* C39: the log compiler orders a session's events by client timestamp, using
\* the server timestamp when the client timestamp is missing and zero when
\* both are missing; events with equal keys keep their journal order.
C39_OrderedByTimestamp ==
    Compiled => OrderedBy(StatedKey, Journal(hist[Len(hist)].sid), resp.val)

====
